---- MODULE Spec2Model ----
(***************************************************************************)
(* agent-device: the session daemon (handleRequest, the socket 'data'      *)
(* handler) and the ref helpers it uses.                                   *)
(*                                                                         *)
(* The daemon is a single-threaded event loop.  A step of the model is one *)
(* run-to-completion segment of JavaScript: a 'data' event, or the         *)
(* settlement of the promise a handler is awaiting, followed by everything *)
(* the handler does until it awaits a collaborator again or ends.          *)
(***************************************************************************)
EXTENDS Integers, Sequences, FiniteSets, TLC

\* ------------------------------------------------------------------ bounds

\* Request lines delivered to the daemon in one run, over all connections.
MaxLines == 3
\* Lines a single 'data' chunk may carry.
MaxChunk == 2
\* Handlers that may be waiting on a collaborator when a chunk arrives.
MaxWaiting == 1
\* Collaborator calls that may fail in one run.
MaxFailures == 1

Conns == {"c1", "c2"}

\* ------------------------------------------------------------------ values

\* JavaScript's undefined / null, where the other values are records.
Undefined == [undefined |-> TRUE]
\* An absent optional string.
NoString == "undefined"

\* const token = crypto.randomBytes(24).toString('hex')
token == "tok"

IosSim == [platform |-> "ios", kind |-> "simulator", id |-> "sim"]
AndroidEmu == [platform |-> "android", kind |-> "emulator", id |-> "emu"]
\* What resolveTargetDevice(flags) resolves to when it finds a device.
Devices == {IosSim, AndroidEmu}
DeviceFor(flags) == CHOOSE d \in Devices : d.platform = flags.platform

\* What resolveIosApp may resolve to.
AppIds == {"com.app"}

Rect(x, y, w, h) == [x |-> x, y |-> y, width |-> w, height |-> h]

\* Node lists the platform's snapshot may return (no refs yet).
RawA ==
  << [type |-> "Button", label |-> "OK", value |-> NoString,
      identifier |-> "ok", rect |-> Rect(0, 0, 10, 20)],
     [type |-> "StaticText", label |-> "", value |-> "Hi",
      identifier |-> NoString, rect |-> Undefined] >>
RawB ==
  << [type |-> "Cell", label |-> "Row", value |-> NoString,
      identifier |-> NoString, rect |-> Rect(4, 6, 2, 2)] >>

\* What dispatchCommand(device, 'snapshot', ...) may resolve to.
SnapshotData ==
  { [nodes |-> RawA, truncated |-> FALSE],
    [nodes |-> RawB, truncated |-> TRUE],
    Undefined }

\* Strings the code takes apart are sequences of characters.
Digit(d) == ToString(d)
RECURSIVE Decimal(_)
Decimal(n) == IF n < 10 THEN <<Digit(n)>> ELSE Decimal(n \div 10) \o <<Digit(n % 10)>>
Digits == {Digit(d) : d \in 0..9}

\* ------------------------------------------------------- utils/snapshot.ts

\* `e<N>`, N counted from 1.
RefOfOneBased(i) == <<"e">> \o Decimal(i + 1)

\* `e<N>`, N the 0-based position.
RefOf(i) == <<"e">> \o Decimal(i)

\* { ...node, ref }
WithRef(node, ref) ==
  [f \in DOMAIN node \cup {"ref"} |-> IF f = "ref" THEN ref ELSE node[f]]

attachRefs(nodes) == [i \in 1..Len(nodes) |-> WithRef(nodes[i], RefOf(i - 1))]

IsRef(s) == Len(s) >= 2 /\ s[1] = "e" /\ \A i \in 2..Len(s) : s[i] \in Digits

\* With or without a leading @; <<>> (null, and falsy like '') when invalid.
normalizeRef(input) ==
  LET body == IF Len(input) > 0 /\ input[1] = "@" THEN Tail(input) ELSE input
  IN IF IsRef(body) THEN body ELSE <<>>

\* nodes.find(node => node.ref === ref) ?? null
findNodeByRef(nodes, ref) ==
  LET hits == {i \in 1..Len(nodes) : "ref" \in DOMAIN nodes[i] /\ nodes[i].ref = ref}
  IN IF hits = {} THEN Undefined
     ELSE nodes[CHOOSE i \in hits : \A j \in hits : i <= j]

\* The geometric centre (the model's rects have even sides).
centerOfRect(rect) ==
  [x |-> rect.x + rect.width \div 2, y |-> rect.y + rect.height \div 2]

\* ------------------------------------------------------------- the protocol

\* One request line: {token, session, command, positionals, flags}.  A click's
\* positionals[1], a fill's positionals[1] and a get's positionals[2] are
\* character sequences (the code takes them apart); the rest are strings.
Request(tok, session, command, positionals, flags) ==
  [token |-> tok, session |-> session, command |-> command, positionals |-> positionals,
   flags |-> flags]

RequestLine(req) == [kind |-> "request", req |-> req]
\* A line that is empty after trim().
EmptyLine == [kind |-> "empty"]
\* A line JSON.parse rejects.
GarbageLine == [kind |-> "garbage"]

\* The session field as clients may send it ('' stands for a missing one).
SessionFields == {"", "s2"}
\* const sessionName = req.session || 'default'
SessionNameOf(req) == IF req.session = "" THEN "default" ELSE req.session
SessionNames == {SessionNameOf([session |-> s]) : s \in SessionFields}

\* The request lines of the model, by command.
Ios == [platform |-> "ios"]
Android == [platform |-> "android"]
Good(session, command, positionals) ==
  RequestLine(Request(token, session, command, positionals, Ios))
GoodOn(flags, session, command, positionals) ==
  RequestLine(Request(token, session, command, positionals, flags))
Bad(session, command, positionals) ==
  RequestLine(Request("bad", session, command, positionals, Ios))

RefE0 == <<"@", "e", "0">>
RefE1 == <<"e", "1">>
RefE7 == <<"@", "e", "7">>
RefNone == <<"@">>

\* What the clients of one run send is drawn from one small set of lines.
OpenLine == Good("", "open", <<>>)
SnapshotLine == Good("", "snapshot", <<>>)
CloseLine == Good("", "close", <<>>)
CloseAppLine == Good("", "close", <<"App">>)
ClickLine == Good("", "click", <<RefE0>>)
GetTextLine == Good("", "get", <<"text", RefE0>>)
FillRefLine == Good("", "fill", <<RefE0, "hi">>)
BackLine == Good("", "back", <<>>)

\* Opening, capturing and closing one session.
LifecycleUniverses ==
  { {OpenLine, CloseLine},
    {OpenLine, CloseAppLine},
    {GoodOn(Android, "", "open", <<>>), CloseLine, BackLine},
    {SnapshotLine, CloseLine} }

\* Ref-addressed commands on one session.
InteractUniverses ==
  { {OpenLine, CloseLine},
    {SnapshotLine, ClickLine},
    {SnapshotLine, FillRefLine},
    {OpenLine, ClickLine, GetTextLine, FillRefLine} }

\* Two sessions side by side.
SessionsUniverses ==
  { {OpenLine, CloseLine},
    {SnapshotLine, GoodOn(Android, "s2", "open", <<>>), Good("s2", "close", <<>>)} }

\* Requests that carry another token than the daemon's.
TokenUniverses ==
  { {OpenLine, CloseLine},
    {SnapshotLine, Bad("", "close", <<>>), Bad("", "snapshot", <<>>)},
    { Bad("", "session_list", <<>>), Bad("", "open", <<>>), Bad("s2", "close", <<"App">>),
      Bad("s2", "snapshot", <<>>), Bad("", "click", <<RefE0>>),
      Bad("", "fill", <<RefE0, "hi">>), Bad("", "get", <<"text", RefE0>>),
      Bad("s2", "back", <<>>) } }

Ok(data) == [ok |-> TRUE, data |-> data]
Fail(code, message) == [ok |-> FALSE, error |-> [code |-> code, message |-> message]]

NoSnapshotMessage == "No snapshot in session. Run snapshot first."

\* An AppError, or any other thrown value.
AppError(code, message) == [isAppError |-> TRUE, code |-> code, message |-> message]
\* What a failing collaborator throws.
CollaboratorError == AppError("COMMAND_FAILED", "collaborator failed")
\* What JSON.parse throws.
SyntaxError == [isAppError |-> FALSE, message |-> "Unexpected token"]
\* utils/errors.ts: an AppError as it is, anything else wrapped.
asAppError(err) ==
  IF err.isAppError THEN err ELSE AppError("UNKNOWN", err.message)

\* ------------------------------------------------------------------- state

VARIABLES
  sessions,  \* const sessions = new Map(): session name -> SessionState
  arrays,    \* the node arrays attachRefs has made, by identity (their index)
  now,       \* the clock Date.now() reads
  buffer,    \* per connection: the lines received and not yet taken
  tasks,     \* the 'data' handlers suspended in an await, by the request they serve
  reqlog,    \* per connection, per line in arrival order: what happened to it
             \*   (started, the session it found, its collaborator calls, its
             \*   writes to the session map, what it returned, what was written)
  epoch,     \* per session name: how many close requests have returned ok
  universe,  \* the lines the clients of this run may send
  failures,  \* the collaborator calls that have failed
  proc,      \* the daemon process: its server, the open connections, the file
             \*   daemon.json, and the activations of shutdown
  lookup,    \* a call of attachRefs and findNodeByRef: its arguments and results
  retry,     \* an activation of withRetry: its options, locals and what it did
  finder,    \* a call of findNodeByLocator: its arguments, loop locals, result
  ax,        \* an activation of snapshotAx: its arguments and what it did
  norm       \* a tree being flattened and normalized, and the node lists made

\* The utilities' activations; the daemon runs with none of them.
utils == <<lookup, retry, finder, ax, norm>>
UtilsIdle ==
  /\ lookup = Undefined
  /\ retry = Undefined
  /\ finder = Undefined
  /\ ax = Undefined
  /\ norm = Undefined

vars == <<sessions, arrays, now, buffer, tasks, reqlog, epoch, universe, failures, proc,
          lookup, retry, finder, ax, norm>>

\* The daemon's state as one value, for the operators below to transform.
Machine ==
  [sessions |-> sessions, arrays |-> arrays, now |-> now, buffer |-> buffer,
   tasks |-> tasks, reqlog |-> reqlog, epoch |-> epoch]

Becomes(m) ==
  /\ sessions' = m.sessions
  /\ arrays' = m.arrays
  /\ now' = m.now
  /\ buffer' = m.buffer
  /\ tasks' = m.tasks
  /\ reqlog' = m.reqlog
  /\ epoch' = m.epoch
  /\ UNCHANGED universe
  /\ UNCHANGED proc
  /\ UNCHANGED utils

\* A request is named by its connection and its arrival number on it.
LogOf(m, id) == m.reqlog[id[1]][id[2]]

\* sessions.get(sessionName)
mapGet(m, name) ==
  IF name \in DOMAIN m.sessions THEN m.sessions[name] ELSE Undefined

\* handleRequest is entered for request id, addressed to session name.
logStart(m, id, name) ==
  [m EXCEPT !.reqlog[id[1]][id[2]].started = TRUE,
            !.reqlog[id[1]][id[2]].seen = mapGet(m, name),
            !.reqlog[id[1]][id[2]].epoch = m.epoch[name]]

logCall(m, id, call) ==
  [m EXCEPT !.reqlog[id[1]][id[2]].calls = Append(@, call)]

\* sessions.set(sessionName, entry)
mapSet(m, id, name, entry) ==
  [m EXCEPT
     !.sessions = [k \in DOMAIN m.sessions \cup {name} |->
                     IF k = name THEN entry ELSE m.sessions[k]],
     !.reqlog[id[1]][id[2]].writes =
        Append(@, [op |-> "set", name |-> name, entry |-> entry,
                   created |-> name \notin DOMAIN m.sessions,
                   epoch |-> m.epoch[name]])]

\* sessions.delete(sessionName), by a close that then returns ok
\* sessions.clear() where sessions.delete(sessionName) stands.
mapClear(m, id, name) ==
  [m EXCEPT
     !.sessions = [k \in {} |-> Undefined],
     !.epoch[name] = @ + 1,
     !.reqlog[id[1]][id[2]].writes =
        Append(@, [op |-> "delete", name |-> name, entry |-> Undefined,
                   created |-> FALSE, epoch |-> m.epoch[name]])]

mapDelete(m, id, name) ==
  [m EXCEPT
     !.sessions = [k \in DOMAIN m.sessions \ {name} |-> m.sessions[k]],
     !.epoch[name] = @ + 1,
     !.reqlog[id[1]][id[2]].writes =
        Append(@, [op |-> "delete", name |-> name, entry |-> Undefined,
                   created |-> FALSE, epoch |-> m.epoch[name]])]

\* ----------------------------------------------------------- handleRequest

\* How a run of handleRequest ends or pauses.
Return(m, resp) == [kind |-> "return", m |-> m, resp |-> resp]
Throw(m, err) == [kind |-> "throw", m |-> m, err |-> err]
\* `await collaborator(...)`: the call is made, the handler waits at pc.
Await(m, id, call, pc, loc) ==
  [kind |-> "await", m |-> logCall(m, id, call), pc |-> pc, loc |-> loc]

ResolveCall(flags) == [fn |-> "resolveTargetDevice", flags |-> flags]
IosAppCall(device) == [fn |-> "resolveIosApp", device |-> device]
StopCall(deviceId) == [fn |-> "stopIosRunnerSession", id |-> deviceId]
\* dispatchCommand(device, command, positionals, out, contextFromFlags(flags, appBundleId))
DispatchCall(device, command, positionals, appBundleId) ==
  [fn |-> "dispatchCommand", device |-> device, command |-> command,
   positionals |-> positionals, appBundleId |-> appBundleId]

isIosSimulator(device) == device.platform = "ios" /\ device.kind = "simulator"

\* session?.appBundleId
appBundleIdOf(session) == IF session = Undefined THEN NoString ELSE session.appBundleId

sessionList(m) ==
  Return(m, Ok([sessions |->
    { [name |-> m.sessions[k].name, platform |-> m.sessions[k].device.platform,
       id |-> m.sessions[k].device.id, createdAt |-> m.sessions[k].createdAt]
      : k \in DOMAIN m.sessions }]))

\* open -------------------------------------------------------------------
openRequest(m, id, req) ==
  Await(m, id, ResolveCall(req.flags), "open_resolve", [none |-> TRUE])

\* An open that stores its entry before it dispatches.
openDispatchStoresFirst(m, id, req, device, appBundleId) ==
  Await(mapSet(m, id, SessionNameOf(req),
               [name |-> SessionNameOf(req), device |-> device, createdAt |-> m.now,
                appBundleId |-> appBundleId, snapshot |-> Undefined]),
        id, DispatchCall(device, "open", req.positionals, appBundleId),
        "open_dispatch", [device |-> device, appBundleId |-> appBundleId])

openDispatch(m, id, req, device, appBundleId) ==
  Await(m, id, DispatchCall(device, "open", req.positionals, appBundleId),
        "open_dispatch", [device |-> device, appBundleId |-> appBundleId])

openResolved(m, id, req, device) ==
  IF device.platform = "ios"
  THEN Await(m, id, IosAppCall(device), "open_app", [device |-> device])
  ELSE openDispatch(m, id, req, device, NoString)

\* An open that keeps the snapshot of the entry it replaces.
openStoreKeepsSnapshot(m, id, sessionName, loc) ==
  Return(
    mapSet([m EXCEPT !.now = @ + 1], id, sessionName,
           [name |-> sessionName, device |-> loc.device, createdAt |-> m.now,
            appBundleId |-> loc.appBundleId,
            snapshot |-> IF sessionName \in DOMAIN m.sessions
                         THEN m.sessions[sessionName].snapshot ELSE Undefined]),
    Ok([session |-> sessionName]))

openStore(m, id, sessionName, loc) ==
  Return(
    mapSet([m EXCEPT !.now = @ + 1], id, sessionName,
           [name |-> sessionName, device |-> loc.device, createdAt |-> m.now,
            appBundleId |-> loc.appBundleId, snapshot |-> Undefined]),
    Ok([session |-> sessionName]))

\* close ------------------------------------------------------------------
closeDelete(m, id, sessionName) ==
  Return(mapDelete(m, id, sessionName), Ok([session |-> sessionName]))

closeStop(m, id, sessionName, session) ==
  IF isIosSimulator(session.device)
  THEN Await(m, id, StopCall(session.device.id), "close_stop", [session |-> session])
  ELSE closeDelete(m, id, sessionName)

closeRequest(m, id, req, sessionName) ==
  LET session == mapGet(m, sessionName)
  IN IF session = Undefined
     THEN Return(m, Fail("SESSION_NOT_FOUND", "No active session"))
     ELSE IF Len(req.positionals) > 0
     THEN Await(m, id,
                DispatchCall(session.device, "close", req.positionals, session.appBundleId),
                "close_dispatch", [session |-> session])
     ELSE closeStop(m, id, sessionName, session)

\* snapshot ---------------------------------------------------------------
snapshotDispatch(m, id, session, device) ==
  Await(m, id, DispatchCall(device, "snapshot", <<>>, appBundleIdOf(session)),
        "snap_dispatch", [session |-> session, device |-> device])

snapshotRequest(m, id, req, sessionName) ==
  LET session == mapGet(m, sessionName)
  IN IF session # Undefined
     THEN snapshotDispatch(m, id, session, session.device)
     ELSE Await(m, id, ResolveCall(req.flags), "snap_resolve", [session |-> session])

\* The stored array overwritten in place, when the session has one.
snapshotArrayInPlace(m, session) ==
  IF session # Undefined /\ session.snapshot # Undefined
  THEN session.snapshot.nodes
  ELSE Len(m.arrays) + 1

\* The array the new SnapshotState holds: a new one.
snapshotArray(m, session) == Len(m.arrays) + 1

\* The captured nodes as they came, without refs.
rawNodes(data) == IF data = Undefined THEN <<>> ELSE data.nodes

\* The nodes stored on the session and returned.
snapshotNodes(data) == attachRefs(IF data = Undefined THEN <<>> ELSE data.nodes)

snapshotStore(m, id, sessionName, loc, data) ==
  LET session == loc.session
      nodes == snapshotNodes(data)
      at == snapshotArray(m, session)
      fresh == session = Undefined
      m1 == [m EXCEPT
               !.arrays = IF at > Len(@) THEN Append(@, nodes) ELSE [@ EXCEPT ![at] = nodes],
               !.now = IF fresh THEN @ + 2 ELSE @ + 1]
      snapshot == [nodes |-> at,
                   truncated |-> IF data = Undefined THEN {} ELSE {data.truncated},
                   createdAt |-> m.now]
  IN Return(
       mapSet(m1, id, sessionName,
              [name |-> sessionName, device |-> loc.device,
               createdAt |-> IF fresh THEN m.now + 1 ELSE session.createdAt,
               appBundleId |-> appBundleIdOf(session), snapshot |-> snapshot]),
       Ok([nodes |-> [array |-> at],
           truncated |-> IF data = Undefined THEN FALSE ELSE data.truncated]))

\* click ------------------------------------------------------------------
\* session?.snapshot is missing
noSnapshot(session) == session = Undefined \/ session.snapshot = Undefined

\* The node list of the session's SnapshotState.
nodesOf(m, session) == m.arrays[session.snapshot.nodes]

\* !node?.rect
noRect(node) == node = Undefined \/ node.rect = Undefined

\* A click that captures a snapshot instead of requiring one.
clickImplicitSnapshot(m, id, req, sessionName) ==
  snapshotRequest(m, id, req, sessionName)

\* A click that presses the rect's origin instead of its centre.
clickCorner(m, id, req, sessionName) ==
  LET session == mapGet(m, sessionName)
      refInput == IF Len(req.positionals) >= 1 THEN req.positionals[1] ELSE <<>>
      ref == normalizeRef(refInput)
      node == IF noSnapshot(session) \/ ref = <<>> THEN Undefined
              ELSE findNodeByRef(nodesOf(m, session), ref)
  IN IF noRect(node)
     THEN Return(m, Fail("COMMAND_FAILED", "Ref not found or has no bounds"))
     ELSE Await(m, id,
                DispatchCall(session.device, "press",
                             <<ToString(node.rect.x), ToString(node.rect.y)>>,
                             session.appBundleId),
                "click_dispatch",
                [ref |-> ref, x |-> node.rect.x, y |-> node.rect.y,
                 read |-> session.snapshot.nodes])

clickRequest(m, id, req, sessionName) ==
  LET session == mapGet(m, sessionName)
      refInput == IF Len(req.positionals) >= 1 THEN req.positionals[1] ELSE <<>>
      ref == normalizeRef(refInput)
  IN IF noSnapshot(session)
     THEN Return(m, Fail("INVALID_ARGS", NoSnapshotMessage))
     ELSE IF ref = <<>>
     THEN Return(m, Fail("INVALID_ARGS", "click requires a ref like @e2"))
     ELSE LET node == findNodeByRef(nodesOf(m, session), ref)
          IN IF noRect(node)
             THEN Return(m, Fail("COMMAND_FAILED", "Ref not found or has no bounds"))
             ELSE LET p == centerOfRect(node.rect)
                  IN Await(m, id,
                           DispatchCall(session.device, "press",
                                        <<ToString(p.x), ToString(p.y)>>,
                                        session.appBundleId),
                           "click_dispatch",
                           [ref |-> ref, x |-> p.x, y |-> p.y,
                            read |-> session.snapshot.nodes])

\* fill -------------------------------------------------------------------
\* req.positionals?.[0]?.startsWith('@')
isRefForm(req) ==
  /\ Len(req.positionals) >= 1
  /\ Len(req.positionals[1]) >= 1
  /\ req.positionals[1][1] = "@"

\* parts.join(' ')
RECURSIVE joinSpace(_)
joinSpace(parts) ==
  IF parts = <<>> THEN ""
  ELSE IF Len(parts) = 1 THEN parts[1]
  ELSE parts[1] \o " " \o joinSpace(Tail(parts))

\* A fill by ref handled as a forwarded command.
fillForwarded(m, id, req, sessionName) ==
  LET session == mapGet(m, sessionName)
  IN IF session = Undefined
     THEN Return(m, Fail("SESSION_NOT_FOUND", "No active session. Run open first."))
     ELSE Await(m, id,
                DispatchCall(session.device, req.command, req.positionals,
                             session.appBundleId),
                "forward_dispatch", [session |-> session])

fillRequest(m, id, req, sessionName) ==
  LET session == mapGet(m, sessionName)
      ref == normalizeRef(req.positionals[1])
      text == joinSpace(Tail(req.positionals))
  IN IF noSnapshot(session)
     THEN Return(m, Fail("INVALID_ARGS", NoSnapshotMessage))
     ELSE IF ref = <<>>
     THEN Return(m, Fail("INVALID_ARGS", "fill requires a ref like @e2"))
     ELSE IF text = ""
     THEN Return(m, Fail("INVALID_ARGS", "fill requires text after ref"))
     ELSE LET node == findNodeByRef(nodesOf(m, session), ref)
          IN IF noRect(node)
             THEN Return(m, Fail("COMMAND_FAILED", "Ref not found or has no bounds"))
             ELSE LET p == centerOfRect(node.rect)
                  IN Await(m, id,
                           DispatchCall(session.device, "fill",
                                        <<ToString(p.x), ToString(p.y), text>>,
                                        session.appBundleId),
                           "fill_dispatch",
                           [ref |-> ref, x |-> p.x, y |-> p.y,
                            read |-> session.snapshot.nodes])

\* get --------------------------------------------------------------------
\* The first of label, value, identifier that is a non-empty string, else ''.
\* (The model's strings carry no surrounding white space for trim() to cut.)
textOf(node) ==
  LET candidates == SelectSeq(<<node.label, node.value, node.identifier>>,
                              LAMBDA v : v # NoString /\ v # "")
  IN IF candidates = <<>> THEN "" ELSE candidates[1]

getRequest(m, req, sessionName) ==
  LET sub == IF Len(req.positionals) >= 1 THEN req.positionals[1] ELSE NoString
      refInput == IF Len(req.positionals) >= 2 THEN req.positionals[2] ELSE <<>>
      session == mapGet(m, sessionName)
      ref == normalizeRef(refInput)
  IN IF sub # "text" /\ sub # "attrs"
     THEN Return(m, Fail("INVALID_ARGS", "get only supports text or attrs"))
     ELSE IF noSnapshot(session)
     THEN Return(m, Fail("INVALID_ARGS", NoSnapshotMessage))
     ELSE IF ref = <<>>
     THEN Return(m, Fail("INVALID_ARGS", "get text requires a ref like @e2"))
     ELSE LET node == findNodeByRef(nodesOf(m, session), ref)
          IN IF node = Undefined
             THEN Return(m, Fail("COMMAND_FAILED", "Ref not found"))
             ELSE IF sub = "attrs"
             THEN Return(m, Ok([ref |-> ref, node |-> node]))
             ELSE Return(m, Ok([ref |-> ref, text |-> textOf(node), node |-> node]))

\* any other command ------------------------------------------------------
forwardRequest(m, id, req, sessionName) ==
  LET session == mapGet(m, sessionName)
  IN IF session = Undefined
     THEN Return(m, Fail("SESSION_NOT_FOUND", "No active session. Run open first."))
     ELSE Await(m, id,
                DispatchCall(session.device, req.command, req.positionals,
                             session.appBundleId),
                "forward_dispatch", [session |-> session])

\* handleRequest past the token check, to its first await or its return.
routeCommand(m, id, req) ==
  LET command == req.command
      sessionName == SessionNameOf(req)
  IN CASE command = "session_list" -> sessionList(m)
       [] command = "open" -> openRequest(m, id, req)
       [] command = "close" -> closeRequest(m, id, req, sessionName)
       [] command = "snapshot" -> snapshotRequest(m, id, req, sessionName)
       [] command = "click" -> clickRequest(m, id, req, sessionName)
       [] command = "fill" /\ isRefForm(req) -> fillRequest(m, id, req, sessionName)
       [] command = "get" -> getRequest(m, req, sessionName)
       [] OTHER -> forwardRequest(m, id, req, sessionName)

\* handleRequest without its token check.
handleRequestUnchecked(m, id, req) == routeCommand(m, id, req)

\* handleRequest, from its entry to its first await or its return.
handleRequest(m, id, req) ==
  IF req.token # token
  THEN Return(m, Fail("UNAUTHORIZED", "Invalid token"))
  ELSE routeCommand(m, id, req)

\* What an awaited collaborator settles with.
Resolved(value) == [throws |-> FALSE, value |-> value]
Rejected(err) == [throws |-> TRUE, err |-> err]

\* handleRequest, from the await at pc to its next await or its return.
resumeRequest(m, id, req, pc, loc, out) ==
  LET sessionName == SessionNameOf(req)
  IN CASE pc = "open_resolve" ->
            IF out.throws THEN Throw(m, out.err)
            ELSE openResolved(m, id, req, out.value)
       [] pc = "open_app" ->
            openDispatch(m, id, req, loc.device,
                         IF out.throws THEN NoString ELSE out.value)
       [] pc = "open_dispatch" ->
            IF out.throws THEN Throw(m, out.err)
            ELSE openStore(m, id, sessionName, loc)
       [] pc = "close_dispatch" ->
            IF out.throws THEN Throw(m, out.err)
            ELSE closeStop(m, id, sessionName, loc.session)
       [] pc = "close_stop" ->
            IF out.throws THEN Throw(m, out.err)
            ELSE closeDelete(m, id, sessionName)
       [] pc = "snap_resolve" ->
            IF out.throws THEN Throw(m, out.err)
            ELSE snapshotDispatch(m, id, loc.session, out.value)
       [] pc = "snap_dispatch" ->
            IF out.throws THEN Throw(m, out.err)
            ELSE snapshotStore(m, id, sessionName, loc, out.value)
       [] pc = "click_dispatch" ->
            IF out.throws THEN Throw(m, out.err)
            ELSE Return(m, Ok([ref |-> loc.ref, x |-> loc.x, y |-> loc.y]))
       [] pc = "fill_dispatch" ->
            IF out.throws THEN Throw(m, out.err)
            ELSE Return(m, Ok(IF out.value = Undefined
                              THEN [ref |-> loc.ref, x |-> loc.x, y |-> loc.y]
                              ELSE out.value))
       [] pc = "forward_dispatch" ->
            IF out.throws THEN Throw(m, out.err)
            ELSE Return(m, Ok(IF out.value = Undefined THEN [none |-> TRUE] ELSE out.value))

\* ------------------------------------------------- the socket 'data' handler

\* JSON.stringify(response): a node array is written out by value.
stringify(m, resp) ==
  IF resp.ok /\ "nodes" \in DOMAIN resp.data
  THEN [resp EXCEPT !.data.nodes = m.arrays[resp.data.nodes.array]]
  ELSE resp

\* socket.write(`${JSON.stringify(response)}\n`)
socketWrite(m, id, resp) ==
  [m EXCEPT !.reqlog[id[1]][id[2]].returned = Append(@, resp),
            !.reqlog[id[1]][id[2]].resps = Append(@, stringify(m, resp))]

\* catch (err): { ok: false, error: { code: appErr.code, message: appErr.message } }
errorResponse(err) == Fail(asAppError(err).code, asAppError(err).message)

RECURSIVE takeLines(_, _), afterRequest(_, _)

\* From `response = await handleRequest(req)` on, for a handleRequest that has
\* returned, thrown or paused: the response is written and the loop goes on,
\* or the handler waits.
\* A handler that writes the error of a handleRequest that threw and leaves
\* its loop.
afterRequestEndsOnThrow(r, id) ==
  IF r.kind = "await"
  THEN [r.m EXCEPT !.tasks = @ \cup {[id |-> id, pc |-> r.pc, loc |-> r.loc]}]
  ELSE IF r.kind = "throw"
  THEN socketWrite([r.m EXCEPT !.reqlog[id[1]][id[2]].outcome = r.kind],
                   id, errorResponse(r.err))
  ELSE takeLines(
         socketWrite([r.m EXCEPT !.reqlog[id[1]][id[2]].outcome = r.kind], id, r.resp),
         id[1])

afterRequest(r, id) ==
  IF r.kind = "await"
  THEN [r.m EXCEPT !.tasks = @ \cup {[id |-> id, pc |-> r.pc, loc |-> r.loc]}]
  ELSE takeLines(
         socketWrite([r.m EXCEPT !.reqlog[id[1]][id[2]].outcome = r.kind],
                     id, IF r.kind = "return" THEN r.resp ELSE errorResponse(r.err)),
         id[1])

\* `while (idx !== -1)`: the lines of connection c's buffer, one after another,
\* until the buffer holds no line or handleRequest pauses.
takeLines(m, c) ==
  IF m.buffer[c] = <<>>
  THEN m
  ELSE LET id == <<c, Head(m.buffer[c]).n>>
           line == Head(m.buffer[c]).line
           m1 == [m EXCEPT !.buffer[c] = Tail(@)]
       IN CASE line.kind = "empty" -> takeLines(m1, c)
            [] line.kind = "garbage" ->
                 takeLines(socketWrite(m1, id, errorResponse(SyntaxError)), c)
            [] OTHER ->
                 afterRequest(
                   handleRequest(logStart(m1, id, SessionNameOf(line.req)), id, line.req),
                   id)

\* What is known of a line when it arrives.
NewLog(line) ==
  [line |-> line, started |-> FALSE, seen |-> Undefined, epoch |-> 0,
   calls |-> <<>>, writes |-> <<>>, returned |-> <<>>, resps |-> <<>>,
   outcome |-> "pending"]

\* `buffer += chunk`, the lines numbered in arrival order.
receive(m, c, chunk) ==
  [m EXCEPT
     !.buffer[c] = @ \o [i \in 1..Len(chunk) |->
                           [n |-> Len(m.reqlog[c]) + i, line |-> chunk[i]]],
     !.reqlog[c] = @ \o [i \in 1..Len(chunk) |-> NewLog(chunk[i])]]

LinesReceived == Len(reqlog["c1"]) + Len(reqlog["c2"])

Chunks == UNION {[1..k -> universe] : k \in 1..MaxChunk}

\* ----------------------------------------------------------------- actions

EmptyMap == [k \in {} |-> Undefined]

\* The process once start() has run and the clients of this run have
\* connected: the server listens, writeInfo has written daemon.json, and no
\* signal has come.  `runs` holds, per activation of shutdown that waits in its
\* loop, the devices of the sessions it has still to go through; `stops` is
\* the devices shutdown has asked a runner stop for; `toStop` is the iOS
\* simulators of the sessions the first shutdown found in the map.
Listening ==
  [alive |-> TRUE, info |-> TRUE, closing |-> FALSE, open |-> Conns,
   runs |-> <<>>, stops |-> {}, signals |-> 0, toStop |-> {}]

\* The daemon as start() leaves it.
Started ==
  /\ sessions = EmptyMap
  /\ arrays = <<>>
  /\ now = 1
  /\ buffer = [c \in Conns |-> <<>>]
  /\ tasks = {}
  /\ reqlog = [c \in Conns |-> <<>>]
  /\ epoch = [s \in SessionNames |-> 0]
  /\ failures = 0
  /\ proc = Listening

Init == Started /\ UtilsIdle /\ universe \in LifecycleUniverses
InitInteract == Started /\ UtilsIdle /\ universe \in InteractUniverses
InitSessions == Started /\ UtilsIdle /\ universe \in SessionsUniverses
InitTokens == Started /\ UtilsIdle /\ universe \in TokenUniverses

\* socket.on('data', async (chunk) => ...): a chunk of whole lines arrives.
Data(c, chunk) ==
  /\ proc.alive /\ c \in proc.open
  /\ LinesReceived + Len(chunk) <= MaxLines
  /\ Cardinality(tasks) <= MaxWaiting
  /\ c = "c2" => reqlog["c1"] # <<>>
  /\ Becomes(takeLines(receive(Machine, c, chunk), c))
  /\ UNCHANGED failures

RequestOf(t) == reqlog[t.id[1]][t.id[2]].line.req

\* The promise task t awaits settles with out; its handler runs on.
Settle(t, out) ==
  /\ proc.alive
  /\ out.throws => failures < MaxFailures
  /\ failures' = IF out.throws THEN failures + 1 ELSE failures
  /\ Becomes(afterRequest(
       resumeRequest([Machine EXCEPT !.tasks = @ \ {t}], t.id, RequestOf(t), t.pc, t.loc, out),
       t.id))

ResolvePcs == {"open_resolve", "snap_resolve"}
DispatchPcs == {"open_dispatch", "close_dispatch", "snap_dispatch", "click_dispatch",
                "fill_dispatch", "forward_dispatch"}

\* What dispatchCommand may resolve to for the handler waiting at pc.
DispatchData(pc) == IF pc = "snap_dispatch" THEN SnapshotData ELSE {Undefined}

ResolveReturns(t) ==
  t.pc \in ResolvePcs /\ Settle(t, Resolved(DeviceFor(RequestOf(t).flags)))
ResolveThrows(t) == t.pc \in ResolvePcs /\ Settle(t, Rejected(CollaboratorError))
IosAppReturns(t, app) == t.pc = "open_app" /\ Settle(t, Resolved(app))
IosAppThrows(t) == t.pc = "open_app" /\ Settle(t, Rejected(CollaboratorError))
DispatchReturns(t, data) ==
  t.pc \in DispatchPcs /\ data \in DispatchData(t.pc) /\ Settle(t, Resolved(data))
DispatchThrows(t) == t.pc \in DispatchPcs /\ Settle(t, Rejected(CollaboratorError))
StopReturns(t) == t.pc = "close_stop" /\ Settle(t, Resolved(Undefined))
StopThrows(t) == t.pc = "close_stop" /\ Settle(t, Rejected(CollaboratorError))

Next ==
  \/ \E c \in Conns, chunk \in Chunks : Data(c, chunk)
  \/ \E t \in tasks : ResolveReturns(t)
  \/ \E t \in tasks : ResolveThrows(t)
  \/ \E t \in tasks, app \in AppIds : IosAppReturns(t, app)
  \/ \E t \in tasks : IosAppThrows(t)
  \/ \E t \in tasks, data \in SnapshotData \cup {Undefined} : DispatchReturns(t, data)
  \/ \E t \in tasks : DispatchThrows(t)
  \/ \E t \in tasks : StopReturns(t)
  \/ \E t \in tasks : StopThrows(t)

Spec == Init /\ [][Next]_vars
SpecInteract == InitInteract /\ [][Next]_vars
SpecSessions == InitSessions /\ [][Next]_vars
SpecTokens == InitTokens /\ [][Next]_vars

\* -------------------------------------------------------------- properties

\* The request lines received so far, as <<connection, arrival number>>.
RequestIds ==
  {id \in Conns \X (1..MaxLines + 1) :
     id[2] <= Len(reqlog[id[1]]) /\ reqlog[id[1]][id[2]].line.kind = "request"}
Log(id) == reqlog[id[1]][id[2]]
Req(id) == Log(id).line.req
Authorized(id) == Req(id).token = token
HasStarted(id) == Log(id).started
Responded(id) == Log(id).resps # <<>>
\* The session the request names existed when handleRequest was entered.
FoundSession(id) == Log(id).seen # Undefined
FoundSnapshot(id) == FoundSession(id) /\ Log(id).seen.snapshot # Undefined
DispatchCalls(id) ==
  {i \in 1..Len(Log(id).calls) : Log(id).calls[i].fn = "dispatchCommand"}
StopCalls(id) ==
  {i \in 1..Len(Log(id).calls) : Log(id).calls[i].fn = "stopIosRunnerSession"}
Deletes(id) ==
  {i \in 1..Len(Log(id).writes) : Log(id).writes[i].op = "delete"}
FailedWith(id, code) ==
  /\ Len(Log(id).resps) = 1
  /\ ~Log(id).resps[1].ok
  /\ Log(id).resps[1].error.code = code

\* Request j is the request after request i on the same connection.
Consecutive(i, j) ==
  /\ i[1] = j[1]
  /\ i[2] < j[2]
  /\ \A k \in RequestIds : k[1] = i[1] => ~(i[2] < k[2] /\ k[2] < j[2])

\* C1: on every connection, handleRequest for request N+1 does not start before
\* the response to request N has been written to the socket.
C1_NextStartsAfterResponse ==
  \A i \in RequestIds, j \in RequestIds :
    Consecutive(i, j) /\ HasStarted(j) => Responded(i)

\* C2: a request whose token is not the daemon's is answered UNAUTHORIZED and
\* nothing else is done for it: no collaborator is called and the session map is
\* not written, whatever its command and session name.
C2_UnauthorizedDoesNothing ==
  \A id \in RequestIds :
    HasStarted(id) /\ ~Authorized(id) =>
      /\ Log(id).resps = <<Fail("UNAUTHORIZED", "Invalid token")>>
      /\ Log(id).calls = <<>>
      /\ Log(id).writes = <<>>

\* C2's case: a request with a wrong token was refused while a session existed.
C2_Witness ==
  \E id \in RequestIds :
    /\ ~Authorized(id)
    /\ FailedWith(id, "UNAUTHORIZED")
    /\ Req(id).command = "close"
    /\ SessionNameOf(Req(id)) \in DOMAIN sessions

\* C3: a command other than session_list and open that finds no session of the
\* requested name fails with SESSION_NOT_FOUND, dispatches nothing to the
\* platform and creates no session entry.
C3_NoSessionNoEffect ==
  \A id \in RequestIds :
    /\ HasStarted(id) /\ Authorized(id) /\ ~FoundSession(id)
    /\ Req(id).command \notin {"session_list", "open"}
    => /\ Log(id).calls = <<>>
       /\ Log(id).writes = <<>>
       /\ FailedWith(id, "SESSION_NOT_FOUND")

\* click, fill with an @-ref, get text|attrs.
NeedsSnapshot(req) ==
  \/ req.command = "click"
  \/ req.command = "fill" /\ isRefForm(req)
  \/ /\ req.command = "get"
     /\ Len(req.positionals) >= 1
     /\ req.positionals[1] \in {"text", "attrs"}

\* C4: on a session that exists and has no snapshot, click, fill by ref and
\* get text|attrs fail with the 'No snapshot in session' error, call no
\* collaborator (no capture, no dispatch) and leave the session map alone.
C4_NoSnapshotNoEffect ==
  \A id \in RequestIds :
    /\ HasStarted(id) /\ Authorized(id)
    /\ FoundSession(id) /\ ~FoundSnapshot(id)
    /\ NeedsSnapshot(Req(id))
    => /\ Log(id).resps = <<Fail("INVALID_ARGS", NoSnapshotMessage)>>
       /\ Log(id).calls = <<>>
       /\ Log(id).writes = <<>>

\* Request id is one of the three commands, answered on an open session that
\* has no snapshot.
RefusedForSnapshot(id, command) ==
  /\ Req(id).command = command
  /\ Authorized(id) /\ NeedsSnapshot(Req(id))
  /\ FoundSession(id) /\ ~FoundSnapshot(id)
  /\ Responded(id)

\* C4's case: a fill by ref and a get were both refused on an open session
\* (and so were, in other states, a click and either of them).
C4_Witness ==
  \E i \in RequestIds, j \in RequestIds :
    RefusedForSnapshot(i, "fill") /\ RefusedForSnapshot(j, "get")

\* C5: a close request that finds its session removes the entry whatever
\* happens, also when it carries positionals and the app-close dispatch throws.
C5_CloseAlwaysRemoves ==
  \A id \in RequestIds :
    /\ Authorized(id) /\ Req(id).command = "close"
    /\ FoundSession(id) /\ Responded(id)
    => Deletes(id) # {}

\* C6: a close request that finds its session on an iOS simulator has the
\* runner of that device stopped, and stopped before the entry is deleted; on
\* any other device the entry is deleted and no runner is stopped.
C6_CloseStopsRunnerFirst ==
  \A id \in RequestIds :
    /\ Authorized(id) /\ Req(id).command = "close"
    /\ FoundSession(id) /\ Responded(id)
    => /\ IF isIosSimulator(Log(id).seen.device)
          THEN \E i \in StopCalls(id) : Log(id).calls[i].id = Log(id).seen.device.id
          ELSE Deletes(id) # {} /\ StopCalls(id) = {}
       /\ \A t \in tasks : t.pc = "close_stop" => Deletes(t.id) = {}

\* The entry of session name, if any.
Entry(name) == IF name \in DOMAIN sessions THEN sessions[name] ELSE Undefined

\* C7: a request addressed to session A never changes the entry of another
\* session B: every write to the map is to the entry the writing request names,
\* and an entry changes only in a step in which a request naming it writes.
C7_SessionIsolation ==
  /\ [](\A id \in RequestIds :
          \A i \in 1..Len(Log(id).writes) :
            Log(id).writes[i].name = SessionNameOf(Req(id)))
  /\ [][\A name \in SessionNames :
          Entry(name)' # Entry(name) =>
            \E c \in Conns : \E n \in 1..Len(reqlog'[c]) :
               /\ reqlog'[c][n].line.kind = "request"
               /\ SessionNameOf(reqlog'[c][n].line.req) = name
               /\ reqlog'[c][n].writes #
                    (IF n <= Len(reqlog[c]) THEN reqlog[c][n].writes ELSE <<>>)]_vars

\* C7's case: one session is closed while the other holds a snapshot's nodes.
C7_Witness ==
  \E id \in RequestIds :
    /\ SessionNameOf(Req(id)) = "s2"
    /\ Deletes(id) # {}
    /\ "default" \in DOMAIN sessions
    /\ sessions["default"].snapshot # Undefined
    /\ arrays[sessions["default"].snapshot.nodes] # <<>>

\* The node lists a capture can produce.
Captures == {snapshotNodes(data) : data \in SnapshotData}

\* C8: a click or fill works on one SnapshotState generation: what it resolved
\* is what its ref names in the one node list it read, that list is a whole
\* capture, and replacing the session's snapshot has not changed it.
C8_OneGeneration ==
  /\ \A i \in 1..Len(arrays) : arrays[i] \in Captures
  /\ \A t \in tasks :
       t.pc \in {"click_dispatch", "fill_dispatch"} =>
         LET node == findNodeByRef(arrays[t.loc.read], t.loc.ref)
         IN /\ node # Undefined
            /\ node.rect # Undefined
            /\ centerOfRect(node.rect) = [x |-> t.loc.x, y |-> t.loc.y]

\* C8's case: the session's snapshot was replaced by another capture while a
\* click that read the old one was still in flight.
C8_Witness ==
  \E t \in tasks :
    /\ t.pc = "click_dispatch"
    /\ "default" \in DOMAIN sessions
    /\ sessions["default"].snapshot # Undefined
    /\ sessions["default"].snapshot.nodes # t.loc.read
    /\ arrays[sessions["default"].snapshot.nodes] # arrays[t.loc.read]

\* C9: once a close of session S has returned ok, no request received before
\* that puts an entry for S back: a request creates an entry only if no close
\* of that session has returned since the request was started.
C9_NoResurrection ==
  \A id \in RequestIds :
    \A i \in 1..Len(Log(id).writes) :
      Log(id).writes[i].op = "set" /\ Log(id).writes[i].created
        => Log(id).writes[i].epoch = Log(id).epoch

\* A successful snapshot request.
SnapshotOk(id) ==
  /\ Authorized(id) /\ Req(id).command = "snapshot"
  /\ Len(Log(id).resps) = 1 /\ Log(id).resps[1].ok

\* C10: after a successful snapshot the node list stored on the session is the
\* list returned, and its node at position i (0-based) carries ref "e"+i, so
\* the refs of one SnapshotState are pairwise distinct.
C10_RefsByPosition ==
  \A id \in RequestIds :
    SnapshotOk(id) =>
      /\ Len(Log(id).writes) = 1
      /\ Log(id).writes[1].op = "set"
      /\ Log(id).writes[1].entry.snapshot.nodes = Log(id).returned[1].data.nodes.array
      /\ LET nodes == arrays[Log(id).returned[1].data.nodes.array]
         IN /\ Log(id).resps[1].data.nodes = nodes
            /\ \A i \in 1..Len(nodes) :
                 "ref" \in DOMAIN nodes[i] /\ nodes[i].ref = RefOf(i - 1)
            /\ \A i \in 1..Len(nodes), j \in 1..Len(nodes) :
                 i # j => nodes[i].ref # nodes[j].ref

\* C10's case: a snapshot of two nodes was stored and returned.
C10_Witness ==
  \E id \in RequestIds :
    /\ SnapshotOk(id)
    /\ Len(Log(id).resps[1].data.nodes) = 2

\* ------------------------------------------------ attachRefs, findNodeByRef

\* The longest node list drawn from all node kinds, and the length of the one
\* long list (long enough for refs of two digits).
MaxNodes == 3
LongList == 11

RawNodes == {RawA[i] : i \in 1..Len(RawA)} \cup {RawB[i] : i \in 1..Len(RawB)}
NodeLists ==
  UNION {[1..n -> RawNodes] : n \in 0..MaxNodes} \cup {[i \in 1..LongList |-> RawB[1]]}

\* The refs looked up in a list of n nodes: every one assigned, two beyond.
RefsAround(n) == {<<"e">> \o Decimal(k) : k \in 0..n + 1}

InitLookup ==
  /\ Started /\ universe = {}
  /\ retry = Undefined /\ finder = Undefined /\ ax = Undefined /\ norm = Undefined
  /\ lookup \in {[pc |-> "nodes", nodes |-> ns, attached |-> <<>>,
                  ref |-> <<>>, found |-> Undefined] : ns \in NodeLists}

DaemonUnchanged ==
  UNCHANGED <<sessions, arrays, now, buffer, tasks, reqlog, epoch, universe, failures, proc>>

\* const nodes = attachRefs(raw)
Attach ==
  /\ lookup.pc = "nodes"
  /\ lookup' = [lookup EXCEPT !.pc = "attached", !.attached = attachRefs(lookup.nodes)]
  /\ UNCHANGED <<retry, finder, ax, norm>>
  /\ DaemonUnchanged

\* const node = findNodeByRef(nodes, ref)
Find(ref) ==
  /\ lookup.pc = "attached"
  /\ lookup' = [lookup EXCEPT !.pc = "found", !.ref = ref,
                              !.found = findNodeByRef(lookup.attached, ref)]
  /\ UNCHANGED <<retry, finder, ax, norm>>
  /\ DaemonUnchanged

NextLookup ==
  \/ Attach
  \/ \E ref \in RefsAround(Len(lookup.nodes)) : Find(ref)

SpecLookup == InitLookup /\ [][NextLookup]_vars

\* C11: looking up, in attachRefs(nodes), the ref "e"+i of position i (0-based)
\* gives the node at position i, that node of the input with its ref; looking
\* up a ref no position was given ("e"+k, k >= length) gives null.
C11_RefRoundTrip ==
  lookup # Undefined /\ lookup.pc = "found" =>
    LET n == Len(lookup.nodes)
        at == {i \in 1..n : lookup.ref = <<"e">> \o Decimal(i - 1)}
    IN /\ Cardinality(at) <= 1
       /\ \A i \in at :
            /\ lookup.found = lookup.attached[i]
            /\ lookup.found = [k \in DOMAIN lookup.nodes[i] \cup {"ref"} |->
                                 IF k = "ref" THEN lookup.ref ELSE lookup.nodes[i][k]]
       /\ at = {} => lookup.found = Undefined

\* C11's case: the eleventh node of a list was found by its ref e10.
C11_Witness ==
  /\ lookup # Undefined /\ lookup.pc = "found"
  /\ lookup.ref = <<"e", "1", "0">>
  /\ lookup.found = lookup.attached[11]

\* ------------------------------------------- click, fill and get by ref

RefBare0 == <<"e", "0">>
RefAt1 == <<"@", "e", "1">>
ClickBareLine == Good("", "click", <<RefBare0>>)

\* A snapshot, then clicks whose ref, with and without @, resolves.
ClickUniverses ==
  { {OpenLine, CloseLine},
    {SnapshotLine, ClickLine, ClickBareLine} }

\* A snapshot, then commands whose ref names a node without a rect (e1 of
\* RawA), is stale (e7; e1 after any other capture) or is malformed (@).
RefErrorUniverses ==
  { {OpenLine, CloseLine},
    {SnapshotLine, Good("", "click", <<RefAt1>>), Good("", "fill", <<RefAt1, "hi">>),
     Good("", "get", <<"text", RefE7>>)},
    {SnapshotLine, Good("", "click", <<RefNone>>), Good("", "get", <<"attrs", RefNone>>)} }

InitClick == Started /\ UtilsIdle /\ universe \in ClickUniverses
InitRefErrors == Started /\ UtilsIdle /\ universe \in RefErrorUniverses
SpecClick == InitClick /\ [][Next]_vars
SpecRefErrors == InitRefErrors /\ [][Next]_vars

\* The ref a command was given: positionals[0] of click and fill,
\* positionals[1] of get; '' when there is none.
RefInput(req) ==
  LET at == IF req.command = "get" THEN 2 ELSE 1
  IN IF Len(req.positionals) >= at THEN req.positionals[at] ELSE <<>>
\* The input without its leading @.
RefBody(req) ==
  IF RefInput(req) # <<>> /\ RefInput(req)[1] = "@"
  THEN Tail(RefInput(req)) ELSE RefInput(req)
\* e, then digits.
WellFormed(ref) ==
  /\ Len(ref) >= 2 /\ ref[1] = "e"
  /\ \A i \in 2..Len(ref) : ref[i] \in {"0", "1", "2", "3", "4", "5", "6", "7", "8", "9"}
\* The nodes of the snapshot the request found that carry its ref.
Named(id) ==
  LET nodes == arrays[Log(id).seen.snapshot.nodes]
  IN {i \in 1..Len(nodes) : nodes[i].ref = RefBody(Req(id))}
NodeNamed(id) ==
  arrays[Log(id).seen.snapshot.nodes][CHOOSE i \in Named(id) : TRUE]

\* A click whose ref names a node with a rect in the session's snapshot.
ClickResolves(id) ==
  /\ Authorized(id) /\ Req(id).command = "click"
  /\ HasStarted(id) /\ FoundSnapshot(id)
  /\ WellFormed(RefBody(Req(id)))
  /\ Named(id) # {}
  /\ NodeNamed(id).rect # Undefined

\* C12: a click whose ref, with or without @, names a node with a rect in the
\* session's snapshot dispatches exactly one platform command and calls nothing
\* else: 'press' on the session's device at x = rect.x + width/2,
\* y = rect.y + height/2; it writes nothing to the session map, and its
\* response, unless the press itself failed, is ok with {ref, x, y}.
C12_ClickPressesCentre ==
  \A id \in RequestIds :
    ClickResolves(id) =>
      LET rect == NodeNamed(id).rect
          x == rect.x + rect.width \div 2
          y == rect.y + rect.height \div 2
      IN /\ Len(Log(id).calls) = 1
         /\ Log(id).calls[1].fn = "dispatchCommand"
         /\ Log(id).calls[1].command = "press"
         /\ Log(id).calls[1].device = Log(id).seen.device
         /\ Log(id).calls[1].positionals = <<ToString(x), ToString(y)>>
         /\ Log(id).writes = <<>>
         /\ Responded(id) =>
              \/ Log(id).resps = <<Ok([ref |-> RefBody(Req(id)), x |-> x, y |-> y])>>
              \/ Log(id).outcome = "throw" /\ FailedWith(id, "COMMAND_FAILED")

\* C12's case: a click on e0, given without @, was answered ok after its press
\* on a node whose centre is not its origin.
C12_Witness ==
  \E id \in RequestIds :
    /\ ClickResolves(id)
    /\ RefInput(Req(id)) = RefBare0
    /\ NodeNamed(id).rect.x = 4
    /\ Len(Log(id).resps) = 1 /\ Log(id).resps[1].ok

\* A click, fill by ref or get text|attrs on a session with a snapshot, whose
\* ref is malformed, or names no node of that snapshot, or (click and fill)
\* names a node without a rect.
RefFails(id) ==
  /\ Authorized(id) /\ NeedsSnapshot(Req(id))
  /\ HasStarted(id) /\ FoundSnapshot(id)
  /\ \/ ~WellFormed(RefBody(Req(id)))
     \/ Named(id) = {}
     \/ Req(id).command \in {"click", "fill"} /\ NodeNamed(id).rect = Undefined

\* C13: such a request is answered at once by a response that handleRequest
\* returned (nothing was thrown), an error of code INVALID_ARGS or
\* COMMAND_FAILED; no collaborator was called and the map was not written.
C13_RefFailureIsAnError ==
  \A id \in RequestIds :
    RefFails(id) =>
      /\ Log(id).outcome = "return"
      /\ FailedWith(id, "INVALID_ARGS") \/ FailedWith(id, "COMMAND_FAILED")
      /\ Log(id).calls = <<>>
      /\ Log(id).writes = <<>>

\* C13's case: a fill whose ref names a node without a rect, and a get whose
\* well-formed ref is stale, were both refused.
C13_Witness ==
  \E i \in RequestIds, j \in RequestIds :
    /\ RefFails(i) /\ RefFails(j)
    /\ Req(i).command = "fill" /\ Named(i) # {}
    /\ Req(j).command = "get" /\ WellFormed(RefBody(Req(j))) /\ Named(j) = {}

\* ---------------------------------------------------------- utils/retry.ts

\* The largest attempts option tried, and the number of values Math.random()
\* takes in the model: k / RandomSteps for k in 0..RandomSteps-1, so [0, 1).
MaxAttempts == 3
RandomSteps == 4

\* defaultOptions
DefaultAttempts == 3
DefaultBaseDelayMs == 200
DefaultMaxDelayMs == 2000
\* jitter is counted in tenths: 0.2 is 2.
JitterUnit == 10
DefaultJitter == 2

\* options.key ?? value: an option that is not given is not a field.
OrDefault(options, key, value) == IF key \in DOMAIN options THEN options[key] ELSE value

\* Delays are kept exactly, as multiples of 1 / Scale ms.
Scale == RandomSteps * JitterUnit

RECURSIVE Pow2(_)
Pow2(n) == IF n = 0 THEN 1 ELSE 2 * Pow2(n - 1)
Min(a, b) == IF a <= b THEN a ELSE b
Max(a, b) == IF a >= b THEN a ELSE b

\* The exponential delay without its cap.
expDelayUncapped(base, max, attempt) == base * Pow2(attempt - 1)

\* Math.min(max, base * 2 ** (attempt - 1))
expDelay(base, max, attempt) == Min(max, base * Pow2(attempt - 1))

\* computeDelay taking its jitterAmount from the exponential before the cap.
computeDelayJitterBeforeCap(base, max, jitter, attempt, random) ==
  LET exp == expDelay(base, max, attempt)
  IN Max(0, exp * Scale
            + (2 * random - RandomSteps) * expDelayUncapped(base, max, attempt) * jitter)

\* computeDelay(base, max, jitter, attempt), in 1 / Scale ms, Math.random()
\* having returned random / RandomSteps:
\*   exp + (Math.random() * 2 - 1) * exp * jitter, at least 0.
computeDelay(base, max, jitter, attempt, random) ==
  LET exp == expDelay(base, max, attempt)
  IN Max(0, exp * Scale + (2 * random - RandomSteps) * exp * jitter)

\* What fn rejects with: AppErrors as snapshotAx throws them, another Error.
RetryableError ==
  [isAppError |-> TRUE, code |-> "COMMAND_FAILED", message |-> "AX snapshot failed",
   retryable |-> TRUE]
FatalError ==
  [isAppError |-> TRUE, code |-> "COMMAND_FAILED", message |-> "AX snapshot failed",
   retryable |-> FALSE]
PlainError == [isAppError |-> FALSE, message |-> "boom"]
FnErrors == {RetryableError, FatalError, PlainError}
FnValues == {"v1", "v2"}

\* new AppError('COMMAND_FAILED', 'retry failed')
RetryFailed == AppError("COMMAND_FAILED", "retry failed")

\* if (lastError): undefined is falsy, every error object is truthy.
Truthy(value) == value # Undefined

\* err instanceof AppError && err.code === 'COMMAND_FAILED' && err.details?.retryable === true
isRetryableError(err) ==
  /\ err # Undefined
  /\ err.isAppError
  /\ err.code = "COMMAND_FAILED"
  /\ "retryable" \in DOMAIN err /\ err.retryable

\* options.shouldRetry(err, attempt), for the policies of the model.
shouldRetry(policy, err, attempt) ==
  CASE policy = "always" -> TRUE
    [] policy = "never" -> FALSE
    [] policy = "first" -> attempt < 2
    [] policy = "retryable" -> isRetryableError(err)
Policies == {"always", "never", "first", "retryable"}

\* An activation of withRetry(fn, options) about to run.
\*   attempts .. jitter: the locals of lines 22-25
\*   attempt, lastError: the loop's locals
\*   calls: the errors and values fn has settled with, one per call made
\*   asked: the <<err, attempt>> shouldRetry was called with
\*   sleeps: per sleep started, the attempt it follows, exp and the delay
\*   result: what withRetry settled with
RetryCall(options) ==
  [pc |-> "start", options |-> options,
   attempts |-> OrDefault(options, "attempts", DefaultAttempts),
   baseDelayMs |-> OrDefault(options, "baseDelayMs", DefaultBaseDelayMs),
   maxDelayMs |-> OrDefault(options, "maxDelayMs", DefaultMaxDelayMs),
   jitter |-> OrDefault(options, "jitter", DefaultJitter),
   attempt |-> 0, lastError |-> Undefined, pending |-> FALSE,
   calls |-> <<>>, asked |-> <<>>, sleeps |-> <<>>, result |-> Undefined]

\* if (lastError) throw lastError; throw new AppError('COMMAND_FAILED', 'retry failed')
retryExit(r) ==
  [r EXCEPT !.pc = "done",
            !.result = Rejected(IF Truthy(r.lastError) THEN r.lastError ELSE RetryFailed)]

\* The loop entered whatever attempts is (a do-while).
retryLoopAtLeastOnce(r, attempt) ==
  IF attempt <= r.attempts \/ attempt = 1
  THEN [r EXCEPT !.pc = "fn", !.attempt = attempt, !.pending = TRUE]
  ELSE retryExit([r EXCEPT !.attempt = attempt])

\* The loop's test and, when it passes, the call of fn.
retryLoop(r, attempt) ==
  IF attempt <= r.attempts
  THEN [r EXCEPT !.pc = "fn", !.attempt = attempt, !.pending = TRUE]
  ELSE retryExit([r EXCEPT !.attempt = attempt])

\* withRetry is entered: attempt = 1.
retryEnter(r) == retryLoop(r, 1)

\* return await fn(), fn having resolved.
retryReturns(r, value) ==
  [r EXCEPT !.pc = "done", !.pending = FALSE,
            !.calls = Append(@, Resolved(value)), !.result = Resolved(value)]

\* const delay = computeDelay(...); await sleep(delay)
retrySleep(r, random) ==
  [r EXCEPT
     !.pc = "sleep",
     !.sleeps = Append(@, [attempt |-> r.attempt,
                           exp |-> expDelay(r.baseDelayMs, r.maxDelayMs, r.attempt),
                           delay |-> computeDelay(r.baseDelayMs, r.maxDelayMs,
                                                  r.jitter, r.attempt, random)])]

\* options.shouldRetry && !options.shouldRetry(err, attempt)
refusesRetry(r, err) ==
  "shouldRetry" \in DOMAIN r.options /\ ~shouldRetry(r.options.shouldRetry, err, r.attempt)

\* catch (err) as far as `lastError = err`, and shouldRetry asked if it is.
retryNoted(r, err, asks) ==
  [r EXCEPT !.pending = FALSE, !.calls = Append(@, Rejected(err)), !.lastError = err,
            !.asked = IF asks /\ "shouldRetry" \in DOMAIN r.options
                      THEN Append(@, <<err, r.attempt>>) ELSE @]

\* catch (err) without `if (attempt >= attempts) break`.
retryCaughtNoFinalBreak(r, err, random) ==
  IF refusesRetry(r, err)
  THEN retryExit(retryNoted(r, err, TRUE))
  ELSE retrySleep(retryNoted(r, err, TRUE), random)

\* catch (err): fn has rejected with err; random is what Math.random() returns
\* if computeDelay is reached.
retryCaught(r, err, random) ==
  IF r.attempt >= r.attempts
  THEN retryExit(retryNoted(r, err, FALSE))
  ELSE IF refusesRetry(r, err)
  THEN retryExit(retryNoted(r, err, TRUE))
  ELSE retrySleep(retryNoted(r, err, TRUE), random)

\* The loop without its `attempt += 1`.
retryWokenNoIncrement(r) == retryLoop(r, r.attempt)

\* await sleep(delay) is over: attempt += 1 and the loop's test.
retryWoken(r) == retryLoop(r, r.attempt + 1)

\* The options withRetry is called with.  With the default delays: every
\* attempts option and every policy.  With MaxAttempts attempts and no policy:
\* delays that reach their cap, start above it, are zero; jitter 0, 0.2, 1, 1.5.
RetryOptions ==
  {[k \in {} |-> 0]}
  \cup [attempts : 0..MaxAttempts]
  \cup [shouldRetry : Policies]
  \cup [attempts : 0..MaxAttempts, shouldRetry : Policies]
  \cup [attempts : {MaxAttempts},
        baseDelayMs : {0, 1, 2, 5}, maxDelayMs : {0, 3}, jitter : {0, 2, 10, 15}]

\* What fn rejects with in a run: any error when the policy is what is looked
\* at, one error when the delays are.
ErrorsOf(options) ==
  IF "jitter" \in DOMAIN options THEN {PlainError} ELSE {RetryableError, FatalError, PlainError}

InitRetry ==
  /\ Started /\ universe = {}
  /\ lookup = Undefined /\ finder = Undefined /\ ax = Undefined /\ norm = Undefined
  /\ retry \in {RetryCall(options) : options \in RetryOptions}

\* withRetry(fn, options) is called and runs to its first await.
RetryStart ==
  /\ retry.pc = "start"
  /\ retry' = retryEnter(retry)
  /\ UNCHANGED <<lookup, finder, ax, norm>>
  /\ DaemonUnchanged

\* fn() resolves.
FnReturns(value) ==
  /\ retry.pc = "fn"
  /\ retry' = retryReturns(retry, value)
  /\ UNCHANGED <<lookup, finder, ax, norm>>
  /\ DaemonUnchanged

\* fn() rejects.
FnThrows(err, random) ==
  /\ retry.pc = "fn"
  /\ err \in ErrorsOf(retry.options)
  /\ retry' = retryCaught(retry, err, random)
  /\ UNCHANGED <<lookup, finder, ax, norm>>
  /\ DaemonUnchanged

\* The timer of sleep(delay) fires.
RetryWakes ==
  /\ retry.pc = "sleep"
  /\ retry' = retryWoken(retry)
  /\ UNCHANGED <<lookup, finder, ax, norm>>
  /\ DaemonUnchanged

NextRetry ==
  \/ RetryStart
  \/ \E value \in FnValues : FnReturns(value)
  \/ \E err \in FnErrors, random \in 0..RandomSteps - 1 : FnThrows(err, random)
  \/ RetryWakes

SpecRetry == InitRetry /\ [][NextRetry]_vars

\* The attempts withRetry was configured with (3 when the option is not given).
Configured == IF "attempts" \in DOMAIN retry.options THEN retry.options.attempts ELSE 3
\* The calls of fn made so far: the settled ones and the one in flight.
CallsMade == Len(retry.calls) + (IF retry.pending THEN 1 ELSE 0)
\* The settled calls that succeeded.
Successes == {i \in 1..Len(retry.calls) : ~retry.calls[i].throws}

\* C14: withRetry calls the operation at most `attempts` times; a call that
\* succeeds is the last call, and its value is what withRetry returns (so with
\* attempts = 3, shouldRetry always true and two failures before a success, the
\* success is returned after exactly 3 calls).
C14_AtMostAttemptsFirstSuccess ==
  retry # Undefined =>
    /\ CallsMade <= Configured
    /\ \A i \in Successes :
         /\ i = Len(retry.calls) /\ ~retry.pending
         /\ retry.pc = "done"
         /\ retry.result = [throws |-> FALSE, value |-> retry.calls[i].value]
    /\ retry.pc = "done" /\ ~retry.result.throws => Successes # {}

\* C14's case: attempts = 3, shouldRetry always true, two failures, then a
\* success that is returned after 3 calls.
C14_Witness ==
  /\ retry # Undefined
  /\ retry.options = [attempts |-> 3, shouldRetry |-> "always"]
  /\ Len(retry.calls) = 3
  /\ retry.calls[1].throws /\ retry.calls[2].throws
  /\ retry.pc = "done"
  /\ retry.result = [throws |-> FALSE, value |-> "v2"]

\* The failure of call i ends the retrying: it was the final attempt, or
\* shouldRetry(error, i) is false.
EndsRetrying(i) ==
  /\ retry.calls[i].throws
  /\ \/ i >= Configured
     \/ /\ "shouldRetry" \in DOMAIN retry.options
        /\ ~shouldRetry(retry.options.shouldRetry, retry.calls[i].err, i)

\* C15: when an attempt fails and it was the final one or shouldRetry returns
\* false for it, withRetry stops at once: no sleep follows that failure, fn is
\* not called again, and what is thrown is the error of that attempt.  With a
\* shouldRetry that is always false, one call is made.
C15_StopsAtOnceWithLastError ==
  retry # Undefined =>
    /\ \A i \in 1..Len(retry.calls) :
         EndsRetrying(i) =>
           /\ i = Len(retry.calls) /\ ~retry.pending
           /\ \A k \in 1..Len(retry.sleeps) : retry.sleeps[k].attempt < i
           /\ retry.pc = "done"
           /\ retry.result = [throws |-> TRUE, err |-> retry.calls[i].err]
    /\ /\ "shouldRetry" \in DOMAIN retry.options
       /\ retry.options.shouldRetry = "never"
       /\ Configured >= 1 /\ retry.pc = "done"
       => Len(retry.calls) = 1

\* C15's case: shouldRetry accepted the first error and refused the second,
\* another one, before the final attempt; the second is what was thrown.
C15_Witness ==
  /\ retry # Undefined
  /\ retry.options = [attempts |-> 3, shouldRetry |-> "retryable"]
  /\ retry.calls = <<[throws |-> TRUE, err |-> RetryableError],
                     [throws |-> TRUE, err |-> FatalError]>>
  /\ retry.pc = "done"
  /\ retry.result = [throws |-> TRUE, err |-> FatalError]

\* C16: with attempts = 0 withRetry never calls the operation and fails with
\* the AppError COMMAND_FAILED 'retry failed'; it returns no value.
C16_ZeroAttemptsFails ==
  retry # Undefined /\ Configured = 0 /\ retry.pc # "start" =>
    /\ CallsMade = 0
    /\ retry.sleeps = <<>>
    /\ retry.pc = "done"
    /\ retry.result =
         [throws |-> TRUE,
          err |-> [isAppError |-> TRUE, code |-> "COMMAND_FAILED", message |-> "retry failed"]]

\* C16's case: withRetry has run with attempts = 0 and a policy.
C16_Witness ==
  /\ retry # Undefined
  /\ retry.options = [attempts |-> 0, shouldRetry |-> "always"]
  /\ retry.pc = "done"

\* min(maxDelay, base * 2^(k-1))
Expected(k) ==
  IF retry.baseDelayMs * Pow2(k - 1) <= retry.maxDelayMs
  THEN retry.baseDelayMs * Pow2(k - 1) ELSE retry.maxDelayMs

\* C17: the k-th sleep follows failed attempt k < attempts; its delay d is
\* e + r with e = min(maxDelay, base * 2^(k-1)) and |r| <= e * jitter, or 0 if
\* that is negative: d >= 0, and for jitter in [0, 1],
\* e * (1 - jitter) <= d <= e * (1 + jitter); e does not decrease with k.
\* (Delays are in 1/Scale ms, jitter in 1/JitterUnit.)
C17_DelayWithinJitter ==
  retry # Undefined =>
    \A k \in 1..Len(retry.sleeps) :
      LET d == retry.sleeps[k].delay
          e == Expected(k)
          j == retry.jitter
      IN /\ retry.sleeps[k].attempt = k /\ k < Configured
         /\ retry.sleeps[k].exp = e
         /\ d >= 0
         /\ \/ d = 0 /\ e * (JitterUnit - j) <= 0
            \/ /\ (d - e * Scale) * JitterUnit <= e * j * Scale
               /\ (e * Scale - d) * JitterUnit <= e * j * Scale
         /\ j <= JitterUnit =>
              /\ e * (JitterUnit - j) * Scale <= d * JitterUnit
              /\ d * JitterUnit <= e * (JitterUnit + j) * Scale
         /\ e <= retry.maxDelayMs
         /\ k > 1 => retry.sleeps[k - 1].exp <= e

\* C17's case: the second delay is at its cap (3, where base * 2 is 4) and the
\* first was lengthened by its jitter.
C17_Witness ==
  /\ retry # Undefined
  /\ Len(retry.sleeps) = 2
  /\ retry.baseDelayMs = 2 /\ retry.maxDelayMs = 3 /\ retry.jitter = 2
  /\ retry.sleeps[2].exp = 3
  /\ retry.sleeps[1].delay > 2 * Scale
  /\ retry.sleeps[2].delay < 3 * Scale

\* --------------------------------------------------------- utils/finders.ts

\* Strings are sequences of characters here, so that trimming, case folding
\* and substring search are computed, not assumed.
Upper == <<"A", "B", "C", "D", "E", "F", "G", "H", "I", "J", "K", "L", "M",
           "N", "O", "P", "Q", "R", "S", "T", "U", "V", "W", "X", "Y", "Z">>
Lower == <<"a", "b", "c", "d", "e", "f", "g", "h", "i", "j", "k", "l", "m",
           "n", "o", "p", "q", "r", "s", "t", "u", "v", "w", "x", "y", "z">>
\* What \s matches, among the characters used.
Space == {" ", "\t", "\n"}
Null == [null |-> TRUE]

lowerChar(c) ==
  IF \E i \in 1..Len(Upper) : Upper[i] = c
  THEN Lower[CHOOSE i \in 1..Len(Upper) : Upper[i] = c]
  ELSE c
\* value.toLowerCase()
toLowerCase(s) == [i \in 1..Len(s) |-> lowerChar(s[i])]

RECURSIVE trimStart(_)
trimStart(s) == IF s # <<>> /\ Head(s) \in Space THEN trimStart(Tail(s)) ELSE s
RECURSIVE trimEnd(_)
trimEnd(s) ==
  IF s # <<>> /\ s[Len(s)] \in Space THEN trimEnd(SubSeq(s, 1, Len(s) - 1)) ELSE s
\* value.trim()
trim(s) == trimEnd(trimStart(s))

\* value.replace(/\s+/g, ' ')
RECURSIVE collapseSpaces(_)
collapseSpaces(s) ==
  IF s = <<>> THEN <<>>
  ELSE IF Head(s) \in Space THEN <<" ">> \o collapseSpaces(trimStart(s))
  ELSE <<Head(s)>> \o collapseSpaces(Tail(s))

\* s.startsWith(prefix), s.slice(n), s.includes(part)
startsWith(s, prefix) ==
  Len(prefix) <= Len(s) /\ SubSeq(s, 1, Len(prefix)) = prefix
slice(s, n) == SubSeq(s, n + 1, Len(s))
includes(s, part) ==
  \E i \in 0..Len(s) - Len(part) : SubSeq(s, i + 1, i + Len(part)) = part

\* normalizeText(value)
normalizeText(value) == collapseSpaces(toLowerCase(trim(value)))

\* value.split('.').pop()
RECURSIVE lastSegment(_)
lastSegment(s) ==
  IF \E i \in 1..Len(s) : s[i] = "."
  THEN lastSegment(slice(s, CHOOSE i \in 1..Len(s) :
                              s[i] = "." /\ \A j \in 1..i - 1 : s[j] # "."))
  ELSE s

XcuiPrefix ==
  <<"x", "c", "u", "i", "e", "l", "e", "m", "e", "n", "t", "t", "y", "p", "e">>
\* s.replace(/XCUIElementType/gi, '')
RECURSIVE stripXcui(_)
stripXcui(s) ==
  IF s = <<>> THEN <<>>
  ELSE IF startsWith(toLowerCase(s), XcuiPrefix) THEN stripXcui(slice(s, Len(XcuiPrefix)))
  ELSE <<Head(s)>> \o stripXcui(Tail(s))

\* normalizeRole(value)
normalizeRole(value) ==
  LET trimmed == trim(value)
      normalized == toLowerCase(stripXcui(lastSegment(trimmed)))
  IN IF trimmed = <<>> THEN <<>>
     ELSE IF startsWith(normalized, <<"a", "x">>) THEN slice(normalized, 2)
     ELSE normalized

\* The score of a normalized field against the query.
score(normalized, query) ==
  IF normalized = <<>> THEN 0
  ELSE IF normalized = query THEN 2
  ELSE IF includes(normalized, query) THEN 1
  ELSE 0

\* node.<key> ?? ''
Field(node, key) == IF key \in DOMAIN node THEN node[key] ELSE <<>>
\* matchText(value, query), matchRole(value, query)
matchText(value, query) == score(normalizeText(value), query)
\* matchRole scoring the type as matchText scores a text field.
matchRoleAsText(value, query) == score(normalizeText(value), query)
matchRole(value, query) == score(normalizeRole(value), query)

\* matchNode(node, locator, query)
matchNode(node, locator, query) ==
  CASE locator = "role" -> matchRole(Field(node, "type"), query)
    [] locator = "label" -> matchText(Field(node, "label"), query)
    [] locator = "value" -> matchText(Field(node, "value"), query)
    [] locator = "id" -> matchText(Field(node, "identifier"), query)
    [] OTHER -> Max(Max(matchText(Field(node, "label"), query),
                        matchText(Field(node, "value"), query)),
                    matchText(Field(node, "identifier"), query))

\* A scan that keeps every node, with or without rect.
skipsNone(options, node) == FALSE

\* options.requireRect && !node.rect
skipsNode(options, node) ==
  "requireRect" \in DOMAIN options /\ options.requireRect /\ "rect" \notin DOMAIN node

\* findNodeByLocator(nodes, locator, query, options) about to run.
FindCall(nodes, locator, query, options) ==
  [pc |-> "start", nodes |-> nodes, locator |-> locator, query |-> query,
   options |-> options, normalizedQuery |-> <<>>, i |-> 0,
   best |-> Null, result |-> Undefined]

\* return best?.node ?? null
findExit(f) ==
  [f EXCEPT !.pc = "done",
            !.result = IF f.best = Null THEN Null ELSE f.best.node]

\* for (const node of nodes): the next node, or the end of the loop.
findLoop(f, i) ==
  IF i > Len(f.nodes) THEN findExit(f) ELSE [f EXCEPT !.pc = "scan", !.i = i]

\* const normalizedQuery = normalizeText(query); if (!normalizedQuery) return null
findEnter(f) ==
  LET normalizedQuery == normalizeText(f.query)
  IN IF normalizedQuery = <<>>
     THEN [f EXCEPT !.pc = "done", !.result = Null]
     ELSE findLoop([f EXCEPT !.normalizedQuery = normalizedQuery], 1)

\* A loop body that takes the first node that matches at all.
findVisitFirstMatch(f) ==
  LET node == f.nodes[f.i]
      s == matchNode(node, f.locator, f.normalizedQuery)
  IN IF skipsNode(f.options, node) \/ s <= 0 THEN findLoop(f, f.i + 1)
     ELSE findExit([f EXCEPT !.best = [node |-> node, score |-> s, at |-> f.i]])

\* The loop body for nodes[i].
findVisit(f) ==
  LET node == f.nodes[f.i]
      s == matchNode(node, f.locator, f.normalizedQuery)
      better == [f EXCEPT !.best = [node |-> node, score |-> s, at |-> f.i]]
  IN IF skipsNode(f.options, node) THEN findLoop(f, f.i + 1)
     ELSE IF s <= 0 THEN findLoop(f, f.i + 1)
     ELSE IF f.best = Null \/ s > f.best.score
          THEN IF s >= 2 THEN findExit(better) ELSE findLoop(better, f.i + 1)
     ELSE findLoop(f, f.i + 1)

\* The longest node list scanned.
MaxScan == 3

\* Nodes of a snapshot; a field the node lacks is absent.
FindRect == Rect(0, 0, 10, 20)
\* label 'Cam'
NodeCam ==
  [type |-> <<"B", "u", "t", "t", "o", "n">>,
   label |-> <<"C", "a", "m">>, rect |-> FindRect]
\* label ' CAM ', no rect
NodeCamBare ==
  [type |-> <<"X", "C", "U", "I", "E", "l", "e", "m", "e", "n", "t", "T", "y", "p", "e", "B", "u", "t", "t", "o", "n">>,
   label |-> <<" ", "C", "A", "M", " ">>]
\* label 'My  Cam'
NodeMyCam ==
  [type |-> <<"A", "X", "C", "e", "l", "l">>,
   label |-> <<"M", "y", " ", " ", "C", "a", "m">>, rect |-> FindRect]
\* value 'Cam', identifier 'camx'
NodeValue ==
  [type |-> <<"T", "e", "x", "t">>, value |-> <<"C", "a", "m">>,
   identifier |-> <<"c", "a", "m", "x">>, rect |-> FindRect]
\* label 'Map'
NodeMap ==
  [type |-> <<"a", ".", "O", "t", "h", "e", "r">>,
   label |-> <<"M", "a", "p">>, rect |-> FindRect]
FindNodes == {NodeCam, NodeCamBare, NodeMyCam, NodeValue, NodeMap}
FindLists == UNION {[1..n -> FindNodes] : n \in 0..MaxScan}

\* type FindLocator
FindLocator == {"any", "text", "label", "value", "role", "id"}
\* ' Cam', '  ', 'button', 'm'
FindQueries ==
  {<<" ", "C", "a", "m">>, <<" ", " ">>,
   <<"b", "u", "t", "t", "o", "n">>, <<"m">>}
\* type FindMatchOptions
FindMatchOptions ==
  {[k \in {} |-> TRUE]} \cup [requireRect : BOOLEAN]

InitFinder ==
  /\ Started /\ universe = {}
  /\ lookup = Undefined /\ retry = Undefined /\ ax = Undefined /\ norm = Undefined
  /\ finder \in {FindCall(nodes, locator, query, options) :
                   nodes \in FindLists, locator \in FindLocator,
                   query \in FindQueries, options \in FindMatchOptions}

\* findNodeByLocator is entered.
FindStart ==
  /\ finder.pc = "start"
  /\ finder' = findEnter(finder)
  /\ UNCHANGED <<lookup, retry, ax, norm>>
  /\ DaemonUnchanged

\* One turn of the loop.
FindVisit ==
  /\ finder.pc = "scan"
  /\ finder' = findVisit(finder)
  /\ UNCHANGED <<lookup, retry, ax, norm>>
  /\ DaemonUnchanged

NextFinder == FindStart \/ FindVisit

SpecFinder == InitFinder /\ [][NextFinder]_vars

\* The call has returned for a query that is not blank.
Searched == finder # Undefined /\ finder.pc = "done" /\ finder.normalizedQuery # <<>>
\* Nodes the scan may return.
Eligible ==
  {i \in 1..Len(finder.nodes) :
     ~("requireRect" \in DOMAIN finder.options /\ finder.options.requireRect)
     \/ "rect" \in DOMAIN finder.nodes[i]}
\* Eligible nodes with the given score.
Scoring(n) ==
  {i \in Eligible : matchNode(finder.nodes[i], finder.locator, finder.normalizedQuery) = n}
First(S) == CHOOSE i \in S : \A j \in S : i <= j
\* The position of the returned node in the list, 0 for null.
ResultAt == IF finder.result = Null THEN 0 ELSE finder.best.at

\* C18: for a query that is not blank, findNodeByLocator returns the first
\* eligible node with an exact normalized match if there is one, even after
\* nodes that match by substring; else the first eligible node with a substring
\* match; else null.
C18_FirstExactElseFirstSubstring ==
  Searched =>
    /\ ResultAt = (IF Scoring(2) # {} THEN First(Scoring(2))
                   ELSE IF Scoring(1) # {} THEN First(Scoring(1))
                   ELSE 0)
    /\ ResultAt # 0 => finder.result = finder.nodes[ResultAt]

\* C18's case: locator 'label', query ' Cam'; a node matching by substring
\* ('My  Cam') precedes two exact ones, and the first exact one is returned.
C18_Witness ==
  /\ Searched
  /\ finder.locator = "label" /\ finder.normalizedQuery = <<"c", "a", "m">>
  /\ finder.nodes = <<NodeMyCam, NodeCam, NodeCamBare>>
  /\ finder.result = NodeCam

\* options.requireRect is set.
RequireRect ==
  "requireRect" \in DOMAIN finder.options /\ finder.options.requireRect

\* C19: with requireRect, findNodeByLocator never returns a node without a
\* rect: a rect-less node is passed over even when it is the first or the only
\* exact match, and a later node with a rect that matches is returned instead;
\* without requireRect a rect-less node is returned like any other.
C19_RequireRectSkipsBareNodes ==
  Searched =>
    LET bare == {i \in 1..Len(finder.nodes) : "rect" \notin DOMAIN finder.nodes[i]}
        hits == {i \in 1..Len(finder.nodes) :
                   matchNode(finder.nodes[i], finder.locator, finder.normalizedQuery) > 0}
        exact == {i \in 1..Len(finder.nodes) :
                    matchNode(finder.nodes[i], finder.locator, finder.normalizedQuery) = 2}
    IN IF RequireRect
       THEN /\ ResultAt \notin bare
            /\ hits \ bare # {} => ResultAt # 0
            /\ hits \subseteq bare => finder.result = Null
       ELSE /\ exact # {} /\ First(exact) \in bare => ResultAt = First(exact)
            /\ hits # {} => ResultAt # 0

\* C19's case: the first node is an exact match without rect, the second has a
\* rect and matches by substring only; requireRect is set and the second is
\* returned.
C19_Witness ==
  /\ Searched /\ RequireRect
  /\ finder.locator = "label" /\ finder.normalizedQuery = <<"c", "a", "m">>
  /\ finder.nodes = <<NodeCamBare, NodeMyCam>>
  /\ finder.result = NodeMyCam

\* ------------------------------------------------- snapshotAx (ios/ax-snapshot)

\* A physical iPhone: platform 'ios', kind 'device'.
IosDevice == [platform |-> "ios", kind |-> "device", id |-> "phone"]
AxDevices == {IosSim, IosDevice, AndroidEmu}

\* Where ensureAxSnapshotBinary finds the helper: AGENT_DEVICE_AX_BINARY,
\* dist/bin/axsnapshot, .build/release/axsnapshot, or nowhere.
BinaryPlaces == {"env", "packaged", "built", "none"}

\* What the helper may write to stderr.
StderrTimeout == <<"T", "i", "m", "e", "o", "u", "t", " ", "w", "a", "i", "t", "i", "n",
  "g", " ", "f", "o", "r", " ", "a", "p", "p">>
StderrNoContent ==
  <<"C", "o", "u", "l", "d", " ", "n", "o", "t", " ", "f", "i", "n", "d",
  " ", "i", "O", "S", " ", "a", "p", "p", " ", "c", "o", "n", "t", "e",
  "n", "t">>
StderrPermission ==
  <<"M", "i", "s", "s", "i", "n", "g", " ", "A", "c", "c", "e", "s", "s",
  "i", "b", "i", "l", "i", "t", "y", " ", "p", "e", "r", "m", "i", "s",
  "s", "i", "o", "n">>
StderrTexts == {StderrTimeout, StderrNoContent, StderrPermission, <<>>}

NeedleNoContent ==
  <<"c", "o", "u", "l", "d", " ", "n", "o", "t", " ", "f", "i", "n", "d",
  " ", "i", "o", "s", " ", "a", "p", "p", " ", "c", "o", "n", "t", "e",
  "n", "t">>
NeedleTimeout == <<"t", "i", "m", "e", "o", "u", "t">>
NeedlePermission ==
  <<"a", "c", "c", "e", "s", "s", "i", "b", "i", "l", "i", "t", "y", " ",
  "p", "e", "r", "m", "i", "s", "s", "i", "o", "n">>
HintPermission == <<" Enable Accessibility for your terminal in System Settings">>
HintNoContent == <<" AX snapshot sometimes caches empty content.">>

\* axHintFromStderr(stderrText)
axHintFromStderr(stderrText) ==
  LET lower == toLowerCase(stderrText)
  IN IF includes(lower, NeedlePermission) THEN HintPermission
     ELSE IF includes(lower, NeedleNoContent) THEN HintNoContent
     ELSE <<>>

\* A classification that calls every failure transient.
isRetryableAxErrorAlways(stderrText) == TRUE

\* isRetryableAxError(stderrText)
isRetryableAxError(stderrText) ==
  LET lower == toLowerCase(stderrText)
  IN includes(lower, NeedleNoContent) \/ includes(lower, NeedleTimeout)

\* Frames and trees the helper may print.
Frame(x, y, w, h) == [x |-> x, y |-> y, width |-> w, height |-> h]
WindowFrame == Frame(100, 50, 300, 600)
TreeA ==
  [role |-> "AXApplication", frame |-> WindowFrame,
   children |->
     << [role |-> "AXButton", label |-> "OK", frame |-> Frame(110, 70, 40, 20)],
        [role |-> "AXGroup",
         children |->
           << [role |-> "AXStaticText", subrole |-> "AXHeading", value |-> "Hi",
               identifier |-> "title", frame |-> Frame(120, 100, 50, 10)] >>] >>]
TreeB ==
  [role |-> "AXWindow",
   children |-> << [role |-> "AXCell", frame |-> Frame(3, 4, 10, 10)] >>]

\* result.stdout: text that is JSON for `value`, or text that is not JSON.
Json(value, length) == [json |-> TRUE, value |-> value, length |-> length]
NotJson(length) == [json |-> FALSE, length |-> length]
StdoutTexts ==
  {Json(TreeA, 4), Json([root |-> TreeB, windowFrame |-> WindowFrame], 5),
   Json([root |-> Null, windowFrame |-> WindowFrame], 2), Json(Null, 4),
   NotJson(3), NotJson(0)}

\* What runCmd(binary, [], { allowFailure: true }) resolves to.
HelperResults ==
  [exitCode : {0}, stdout : StdoutTexts, stderr : {<<>>}]
    \cup [exitCode : {1}, stdout : {NotJson(0)}, stderr : StderrTexts]
    \cup [exitCode : {1}, stdout : {NotJson(3)}, stderr : {StderrTimeout}]

\* JSON.parse(text)
jsonParse(text) == IF text.json THEN Resolved(text.value) ELSE Rejected(SyntaxError)

\* The try block: tree and originFrame, or what it throws.
parsePayload(stdout) ==
  LET parsed == jsonParse(stdout)
      payload == parsed.value
  IN IF parsed.throws THEN parsed
     ELSE IF "root" \in DOMAIN payload
     THEN IF payload.root = Null
          THEN Rejected([isAppError |-> FALSE, message |-> "AX snapshot missing root"])
          ELSE Resolved([tree |-> payload.root,
                         originFrame |->
                           IF "windowFrame" \in DOMAIN payload /\ payload.windowFrame # Null
                           THEN payload.windowFrame ELSE Undefined])
     ELSE Resolved([tree |-> payload, originFrame |-> Undefined])

\* walk: the frame pushed with a node that has one.
\* A walk that leaves the frame where it was reported.
walkFrameKept(node, rootFrame) == node.frame

walkFrame(node, rootFrame) ==
  IF rootFrame # Undefined
  THEN Frame(node.frame.x - rootFrame.x, node.frame.y - rootFrame.y,
             node.frame.width, node.frame.height)
  ELSE node.frame

\* { ...node, frame, children: undefined, depth }; a key whose value is
\* undefined is absent.
walkNode(node, depth, rootFrame) ==
  [k \in (DOMAIN node \ {"children"}) \cup {"depth"} |->
     CASE k = "depth" -> depth
       [] k = "frame" -> walkFrame(node, rootFrame)
       [] OTHER -> node[k]]

\* walk(node, depth): the entries pushed to nodes, each with what was pushed to
\* frameSamples for it.
RECURSIVE walk(_, _, _)
RECURSIVE walkEach(_, _, _)
\* A walk that pushes a node after its children.
walkPostOrder(node, depth, rootFrame) ==
  walkEach(IF "children" \in DOMAIN node THEN node.children ELSE <<>>,
           depth + 1, rootFrame)
    \o << [node |-> walkNode(node, depth, rootFrame),
           samples |-> IF "frame" \in DOMAIN node THEN <<node.frame>> ELSE <<>>] >>

walk(node, depth, rootFrame) ==
  << [node |-> walkNode(node, depth, rootFrame),
      samples |-> IF "frame" \in DOMAIN node THEN <<node.frame>> ELSE <<>>] >>
    \o walkEach(IF "children" \in DOMAIN node THEN node.children ELSE <<>>,
                depth + 1, rootFrame)
walkEach(children, depth, rootFrame) ==
  IF children = <<>> THEN <<>>
  ELSE walk(Head(children), depth, rootFrame) \o walkEach(Tail(children), depth, rootFrame)

RECURSIVE Flat(_)
Flat(seqs) == IF seqs = <<>> THEN <<>> ELSE Head(seqs) \o Flat(Tail(seqs))

\* The least number of a non-empty set.
Least(S) == CHOOSE v \in S : \A w \in S : v <= w

\* A normalizeFrames that adds the origin back when the frames are far from 0.
normalizeFramesWhenFar(nodes, originFrame, frames) ==
  IF originFrame = Undefined \/ frames = <<>> THEN nodes
  ELSE LET minX == Least({frames[i].x : i \in 1..Len(frames)})
           minY == Least({frames[i].y : i \in 1..Len(frames)})
       IN IF minX > 5 \/ minY > 5
          THEN [i \in 1..Len(nodes) |->
                  IF "frame" \in DOMAIN nodes[i]
                  THEN [nodes[i] EXCEPT !.frame =
                          Frame(@.x + originFrame.x, @.y + originFrame.y,
                                @.width, @.height)]
                  ELSE nodes[i]]
          ELSE nodes

\* normalizeFrames(nodes, originFrame, frames)
normalizeFrames(nodes, originFrame, frames) ==
  IF originFrame = Undefined \/ frames = <<>> THEN nodes
  ELSE LET minX == Least({frames[i].x : i \in 1..Len(frames)})
           minY == Least({frames[i].y : i \in 1..Len(frames)})
           nearZero == minX <= 5 /\ minY <= 5
       IN IF nearZero
          THEN [i \in 1..Len(nodes) |->
                  IF "frame" \in DOMAIN nodes[i]
                  THEN [nodes[i] EXCEPT !.frame =
                          Frame(@.x + originFrame.x, @.y + originFrame.y,
                                @.width, @.height)]
                  ELSE nodes[i]]
          ELSE nodes

\* normalized.map((node, index) => ({ index, type, label, ... })), index from 0
mapNode(node, index) ==
  [k \in {"index", "depth"}
           \cup (DOMAIN node \cap {"label", "value", "identifier"})
           \cup (IF DOMAIN node \cap {"subrole", "role"} # {} THEN {"type"} ELSE {})
           \cup (IF "frame" \in DOMAIN node THEN {"rect"} ELSE {}) |->
     CASE k = "index" -> index
       [] k = "depth" -> node.depth
       [] k = "type" -> IF "subrole" \in DOMAIN node THEN node.subrole ELSE node.role
       [] k = "rect" -> Rect(node.frame.x, node.frame.y, node.frame.width, node.frame.height)
       [] OTHER -> node[k]]

\* The node list made of the tree.
flatten(tree, originFrame) ==
  LET rootFrame == IF "frame" \in DOMAIN tree THEN tree.frame ELSE originFrame
      walked == walk(tree, 0, rootFrame)
      nodes == [i \in 1..Len(walked) |-> walked[i].node]
      frameSamples == Flat([i \in 1..Len(walked) |-> walked[i].samples])
      normalized == normalizeFrames(nodes, rootFrame, frameSamples)
  IN [nodes |-> [i \in 1..Len(normalized) |-> mapNode(normalized[i], i - 1)]]

\* snapshotAx(device, options) about to run, the helper being at `place`.
AxCall(device, options, place) ==
  [pc |-> "start", device |-> device, options |-> options, place |-> place,
   checks |-> 0, spawned |-> <<>>, results |-> <<>>, trace |-> <<>>,
   result |-> Undefined]

\* The promise of snapshotAx settles.
axSettle(a, outcome) == [a EXCEPT !.pc = "done", !.result = outcome]

\* ensureAxSnapshotBinary(): the fs.existsSync tests, then swift build.
ensureAxSnapshotBinary(a) ==
  CASE a.place = "env" -> [a EXCEPT !.pc = "binary", !.checks = 1]
    [] a.place = "packaged" -> [a EXCEPT !.pc = "binary", !.checks = 2]
    [] a.place = "built" -> [a EXCEPT !.pc = "binary", !.checks = 3]
    [] OTHER -> [a EXCEPT !.pc = "build", !.checks = 3,
                          !.spawned = Append(@, "swift")]

\* snapshotAx without its test of the device.
axEnterUnchecked(a) == ensureAxSnapshotBinary(a)

\* snapshotAx, to its first await.
axEnter(a) ==
  IF a.device.platform # "ios" \/ a.device.kind # "simulator"
  THEN axSettle(a, Rejected(AppError("UNSUPPORTED_OPERATION",
                                     "AX snapshot is only supported on iOS simulators")))
  ELSE ensureAxSnapshotBinary(a)

\* swift build has ended; exists: .build/release/axsnapshot is there.
axBuilt(a, exitCode, exists) ==
  IF exitCode # 0 \/ ~exists
  THEN axSettle([a EXCEPT !.checks = @ + (IF exitCode = 0 THEN 1 ELSE 0)],
                Rejected(AppError("COMMAND_FAILED", "Failed to build AX snapshot tool")))
  ELSE [a EXCEPT !.pc = "binary", !.checks = @ + 1]

\* The function handed to withRetry is called: runCmd(binary, [], ...).
axAttempt(a) == [a EXCEPT !.pc = "helper", !.spawned = Append(@, "axsnapshot")]

\* appendAxTrace(traceLogPath, result)
appendAxTrace(trace, result) ==
  trace
    \o << [header |-> TRUE, exit |-> result.exitCode,
           stdoutBytes |-> result.stdout.length, stderrBytes |-> Len(result.stderr)] >>
    \o (IF Len(result.stderr) > 0 THEN << [header |-> FALSE, text |-> result.stderr] >>
        ELSE <<>>)
    \o (IF result.exitCode # 0 /\ result.stdout.length > 0
        THEN << [header |-> FALSE, text |-> result.stdout] >> ELSE <<>>)

\* if (options.traceLogPath) appendAxTrace(options.traceLogPath, attemptResult)
axTraced(a, result) ==
  IF "traceLogPath" \in DOMAIN a.options
  THEN [a EXCEPT !.trace = appendAxTrace(@, result)] ELSE a

\* new AppError('COMMAND_FAILED', 'AX snapshot failed', { stderr, stdout, retryable })
axError(result) ==
  [isAppError |-> TRUE, code |-> "COMMAND_FAILED", message |-> "AX snapshot failed",
   stderr |-> result.stderr \o axHintFromStderr(result.stderr),
   stdout |-> result.stdout,
   retryable |-> isRetryableAxError(result.stderr)]

\* What reading tree.frame throws when the payload is the JSON null.
TypeError == [isAppError |-> FALSE, message |-> "Cannot read properties of null"]

\* After withRetry resolved: parse, flatten, return { nodes }.
axParsed(a, result) ==
  LET parsed == parsePayload(result.stdout)
  IN IF parsed.throws
     THEN axSettle(a, Rejected(AppError("COMMAND_FAILED", "Invalid AX snapshot JSON")))
     ELSE IF parsed.value.tree = Null THEN axSettle(a, Rejected(TypeError))
     ELSE axSettle(a, Resolved(flatten(parsed.value.tree, parsed.value.originFrame)))

\* The function handed to withRetry, after its await, with the trace written
\* only for an attempt that does not throw.
axAttemptEndsTraceLast(a, result) ==
  IF result.exitCode # 0
  THEN [ax |-> a, outcome |-> Rejected(axError(result))]
  ELSE [ax |-> axTraced(a, result), outcome |-> Resolved(result)]

\* The function handed to withRetry, after its await: the trace, then the
\* throw or the return.
axAttemptEnds(a, result) ==
  LET traced == axTraced(a, result)
  IN IF result.exitCode # 0
     THEN [ax |-> traced, outcome |-> Rejected(axError(result))]
     ELSE [ax |-> traced, outcome |-> Resolved(result)]

\* The helper has exited with `result`.
axRan(a, result) == [a EXCEPT !.results = Append(@, result)]

\* { shouldRetry: (err) => isRetryableError(err) }
AxRetryOptions == [shouldRetry |-> "retryable"]

AxOptions == {[k \in {} |-> ""], [traceLogPath |-> "ax.log"]}

InitAx ==
  /\ Started /\ universe = {}
  /\ lookup = Undefined /\ retry = Undefined /\ finder = Undefined /\ norm = Undefined
  /\ ax \in {AxCall(device, options, place) :
               device \in AxDevices, options \in AxOptions, place \in BinaryPlaces}

\* snapshotAx(device, options) is called.
AxStart ==
  /\ ax.pc = "start"
  /\ ax' = axEnter(ax)
  /\ UNCHANGED <<lookup, retry, finder, norm>>
  /\ DaemonUnchanged

\* swift build ends.
AxBuildEnds(exitCode, exists) ==
  /\ ax.pc = "build"
  /\ ax' = axBuilt(ax, exitCode, exists)
  /\ UNCHANGED <<lookup, retry, finder, norm>>
  /\ DaemonUnchanged

\* await ensureAxSnapshotBinary() resumes: withRetry is entered and calls the
\* function for attempt 1.
AxRetryEnters ==
  /\ ax.pc = "binary"
  /\ retry' = retryEnter(RetryCall(AxRetryOptions))
  /\ ax' = axAttempt(ax)
  /\ UNCHANGED <<lookup, finder, norm>>
  /\ DaemonUnchanged

\* The helper exits with a non-zero code: the function throws, withRetry
\* sleeps or gives up.
AxHelperFails(result, random) ==
  /\ ax.pc = "helper" /\ result.exitCode # 0
  /\ LET ended == axAttemptEnds(axRan(ax, result), result)
     IN /\ retry' = retryCaught(retry, ended.outcome.err, random)
        /\ ax' = IF retry'.pc = "sleep" THEN [ended.ax EXCEPT !.pc = "sleep"]
                 ELSE axSettle(ended.ax, retry'.result)
  /\ UNCHANGED <<lookup, finder, norm>>
  /\ DaemonUnchanged

\* The helper exits with 0: the function returns, withRetry returns, and
\* snapshotAx runs to its end.
AxHelperSucceeds(result) ==
  /\ ax.pc = "helper" /\ result.exitCode = 0
  /\ LET ended == axAttemptEnds(axRan(ax, result), result)
     IN /\ retry' = retryReturns(retry, ended.outcome.value)
        /\ ax' = axParsed(ended.ax, retry'.result.value)
  /\ UNCHANGED <<lookup, finder, norm>>
  /\ DaemonUnchanged

\* The timer of withRetry's sleep fires: the next attempt.
AxRetryWakes ==
  /\ ax.pc = "sleep"
  /\ retry' = retryWoken(retry)
  /\ ax' = IF retry'.pc = "fn" THEN axAttempt(ax) ELSE axSettle(ax, retry'.result)
  /\ UNCHANGED <<lookup, finder, norm>>
  /\ DaemonUnchanged

NextAx ==
  \/ AxStart
  \/ \E exitCode \in {0, 1}, exists \in BOOLEAN : AxBuildEnds(exitCode, exists)
  \/ AxRetryEnters
  \/ \E result \in HelperResults, random \in 0..RandomSteps - 1 :
       AxHelperFails(result, random)
  \/ \E result \in HelperResults : AxHelperSucceeds(result)
  \/ AxRetryWakes

SpecAx == InitAx /\ [][NextAx]_vars

\* The device snapshotAx supports.
IsIosSimulator(device) == device.platform = "ios" /\ device.kind = "simulator"

\* C20: snapshotAx for a device that is not an iOS simulator fails with
\* UNSUPPORTED_OPERATION and spawns nothing: the helper binary is neither looked
\* for nor built nor run, and withRetry is not entered.
C20_UnsupportedBeforeAnyProcess ==
  ax # Undefined /\ ~IsIosSimulator(ax.device) =>
    /\ ax.spawned = <<>> /\ ax.checks = 0
    /\ retry = Undefined
    /\ ax.pc \in {"start", "done"}
    /\ ax.pc = "done" =>
         /\ ax.result.throws
         /\ ax.result.err.isAppError
         /\ ax.result.err.code = "UNSUPPORTED_OPERATION"

\* C20's case: snapshotAx has returned for an Android emulator.
C20_Witness ==
  /\ ax # Undefined /\ ax.device = AndroidEmu /\ ax.place = "none"
  /\ ax.pc = "done" /\ ax.result.throws

\* The times the helper was started.
HelperRuns == Len(SelectSeq(ax.spawned, LAMBDA name : name = "axsnapshot"))
\* The diagnostics the retry policy calls transient.
TransientStderr == {StderrTimeout, StderrNoContent}
\* The payloads that cannot be decoded into a tree.
Undecodable(stdout) == ~stdout.json \/ ("root" \in DOMAIN stdout.value /\ stdout.value.root = Null)
\* snapshotAx has failed with COMMAND_FAILED.
AxCommandFailed ==
  /\ ax.pc = "done" /\ ax.result.throws
  /\ ax.result.err.isAppError /\ ax.result.err.code = "COMMAND_FAILED"

\* C21: in snapshotAx the helper runs again only after an attempt that failed
\* with a transient diagnostic; a non-zero exit with another diagnostic is the
\* last run and gives COMMAND_FAILED with retryable = false; a zero exit with
\* an undecodable payload is the last run and gives COMMAND_FAILED; the helper
\* never runs more than 3 times.
C21_RetriesOnlyTransient ==
  ax # Undefined =>
    /\ HelperRuns <= 3
    /\ Len(ax.results) \in {HelperRuns - 1, HelperRuns}
    /\ \A i \in 1..Len(ax.results) :
         LET r == ax.results[i]
         IN /\ i < HelperRuns => r.exitCode # 0 /\ r.stderr \in TransientStderr
            /\ r.exitCode # 0 /\ r.stderr \notin TransientStderr =>
                 /\ HelperRuns = i /\ AxCommandFailed
                 /\ ax.result.err.retryable = FALSE
            /\ r.exitCode = 0 => HelperRuns = i /\ ax.pc = "done"
            /\ r.exitCode = 0 /\ Undecodable(r.stdout) => AxCommandFailed

\* C21's case: the first run fails for want of the accessibility permission
\* and is the only one.
C21_Witness ==
  /\ ax # Undefined /\ HelperRuns = 1 /\ AxCommandFailed
  /\ ax.results[1].stderr = StderrPermission

\* The header records of the trace, in the order they were appended.
Headers == SelectSeq(ax.trace, LAMBDA record : record.header)
\* A trace path was given to snapshotAx.
Tracing == "traceLogPath" \in DOMAIN ax.options

\* C22: with a trace path, each run of the helper, failed or not, retried or
\* final, has appended exactly one header record by the time its error is
\* caught by withRetry or its result returned: the headers are as many as the
\* runs that ended, in their order, each with the run's exit code and byte
\* counts.  Without a trace path nothing is appended.
C22_OneHeaderPerRun ==
  ax # Undefined =>
    IF Tracing
    THEN /\ Len(Headers) = Len(ax.results)
         /\ retry # Undefined => Len(Headers) = Len(retry.calls)
         /\ \A i \in 1..Len(Headers) :
              /\ Headers[i].exit = ax.results[i].exitCode
              /\ Headers[i].stdoutBytes = ax.results[i].stdout.length
              /\ Headers[i].stderrBytes = Len(ax.results[i].stderr)
         /\ ax.pc = "done" /\ retry # Undefined => Len(Headers) = HelperRuns
    ELSE ax.trace = <<>>

\* C22's case: a traced capture of three runs, two failed and retried, the
\* third successful, with three headers.
C22_Witness ==
  /\ ax # Undefined /\ Tracing /\ ax.pc = "done" /\ ~ax.result.throws
  /\ HelperRuns = 3 /\ Len(Headers) = 3
  /\ Headers[1].exit = 1 /\ Headers[3].exit = 0

\* ----------------------------------------- snapshotAx: flatten and normalize

\* The most nodes of a tree.
MaxTreeNodes == 3

\* The frame a node may have: none, or one at a place far from, near, or
\* astride the 5 px tolerance.
FramePlaces == {<<100, 50>>, <<110, 70>>, <<5, 5>>, <<6, 4>>, <<3, 9>>}
FrameChoices == {<<>>} \cup {<<Frame(at[1], at[2], 40, 20)>> : at \in FramePlaces}

\* The other fields of a node at a depth: with a subrole on every second level.
NodeFields(depth, pattern) ==
  IF (depth + pattern) % 2 = 0 THEN [role |-> "AXGroup", label |-> "Box"]
  ELSE [role |-> "AXStaticText", subrole |-> "AXHeading", value |-> "Hi",
        identifier |-> "title"]

\* An AXNode of these fields, this frame (if any) and these children (if any).
MakeNode(fields, frame, children) ==
  [k \in DOMAIN fields \cup (IF frame = <<>> THEN {} ELSE {"frame"})
           \cup (IF children = <<>> THEN {} ELSE {"children"}) |->
     CASE k = "frame" -> frame[1]
       [] k = "children" -> children
       [] OTHER -> fields[k]]

\* The trees of n nodes rooted at a depth, and the child lists of n nodes.
RECURSIVE TreesOf(_, _, _)
RECURSIVE ForestsOf(_, _, _)
TreesOf(n, depth, pattern) ==
  {MakeNode(NodeFields(depth, pattern), frame, children) :
     frame \in FrameChoices, children \in ForestsOf(n - 1, depth + 1, pattern)}
ForestsOf(n, depth, pattern) ==
  IF n = 0 THEN {<<>>}
  ELSE UNION {{<<first>> \o rest : first \in TreesOf(k, depth, pattern),
                                  rest \in ForestsOf(n - k, depth, pattern)} :
              k \in 1..n}
Trees == UNION {TreesOf(n, 0, pattern) : n \in 1..MaxTreeNodes, pattern \in {0, 1}}

\* payload.windowFrame, when the payload has one.
OriginFrames == {Undefined, WindowFrame}

\* The tree with the frames of its nodes replaced by the rects of a node list,
\* taken in pre-order from position i; `next` is the position after the tree.
RECURSIVE reframe(_, _, _)
RECURSIVE reframeEach(_, _, _)
reframe(node, nodes, i) ==
  LET kids == reframeEach(IF "children" \in DOMAIN node THEN node.children ELSE <<>>,
                          nodes, i + 1)
      fields == [k \in DOMAIN node \ {"frame", "children"} |-> node[k]]
  IN [tree |-> MakeNode(fields,
                        IF "rect" \in DOMAIN nodes[i] THEN <<nodes[i].rect>> ELSE <<>>,
                        kids.trees),
      next |-> kids.next]
reframeEach(children, nodes, i) ==
  IF children = <<>> THEN [trees |-> <<>>, next |-> i]
  ELSE LET first == reframe(Head(children), nodes, i)
           rest == reframeEach(Tail(children), nodes, first.next)
       IN [trees |-> <<first.tree>> \o rest.trees, next |-> rest.next]

InitNorm ==
  /\ Started /\ universe = {}
  /\ lookup = Undefined /\ retry = Undefined /\ finder = Undefined /\ ax = Undefined
  /\ norm \in {[pc |-> "tree", tree |-> tree, originFrame |-> originFrame,
                out |-> <<>>, relative |-> Undefined, again |-> <<>>] :
                 tree \in Trees, originFrame \in OriginFrames}

\* The tree is flattened and normalized.
Normalize ==
  /\ norm.pc = "tree"
  /\ norm' = [norm EXCEPT !.pc = "flat",
                          !.out = flatten(norm.tree, norm.originFrame).nodes]
  /\ UNCHANGED <<lookup, retry, finder, ax>>
  /\ DaemonUnchanged

\* The same tree, its frames now the rects of the first pass, is flattened and
\* normalized again with the same origin frame.
Renormalize ==
  /\ norm.pc = "flat"
  /\ LET relative == reframe(norm.tree, norm.out, 1).tree
     IN norm' = [norm EXCEPT !.pc = "again", !.relative = relative,
                             !.again = flatten(relative, norm.originFrame).nodes]
  /\ UNCHANGED <<lookup, retry, finder, ax>>
  /\ DaemonUnchanged

NextNorm == Normalize \/ Renormalize

SpecNorm == InitNorm /\ [][NextNorm]_vars

\* The places of a tree's nodes: the path of child numbers from the root.
RECURSIVE Paths(_)
Paths(tree) ==
  {<<>>} \cup
  (IF "children" \in DOMAIN tree
   THEN UNION {{<<k>> \o path : path \in Paths(tree.children[k])} :
               k \in 1..Len(tree.children)}
   ELSE {})

\* The node of a tree at a path.
RECURSIVE At(_, _)
At(tree, path) ==
  IF path = <<>> THEN tree ELSE At(tree.children[Head(path)], Tail(path))

\* Pre-order: a node comes before its descendants, and a child's subtree before
\* the subtrees of the later children.
RECURSIVE Before(_, _)
Before(p, q) ==
  \/ p = <<>> /\ q # <<>>
  \/ /\ p # <<>> /\ q # <<>>
     /\ \/ Head(p) < Head(q)
        \/ Head(p) = Head(q) /\ Before(Tail(p), Tail(q))

\* The position of a path in pre-order, from 1.
Rank(tree, path) == Cardinality({q \in Paths(tree) : Before(q, path)}) + 1

Flattened == norm # Undefined /\ norm.pc # "tree"

\* C23: the node list has exactly one node per node of the tree, in pre-order:
\* the node at a path is at the path's pre-order position, its index is that
\* position (from 0), its depth is the length of the path (0 at the root, the
\* parent's plus one below it), its type is the subrole when the node has one
\* and the role otherwise, and its label, value and identifier are the node's;
\* so no node is more than one level deeper than the node before it.
C23_OneNodePerTreeNodeInPreOrder ==
  Flattened =>
    /\ Len(norm.out) = Cardinality(Paths(norm.tree))
    /\ \A path \in Paths(norm.tree) :
         LET node == At(norm.tree, path)
             made == norm.out[Rank(norm.tree, path)]
         IN /\ made.index = Rank(norm.tree, path) - 1
            /\ made.depth = Len(path)
            /\ made.type = IF "subrole" \in DOMAIN node THEN node.subrole ELSE node.role
            /\ \A k \in {"label", "value", "identifier"} :
                 IF k \in DOMAIN node THEN k \in DOMAIN made /\ made[k] = node[k]
                 ELSE k \notin DOMAIN made
    /\ norm.out[1].depth = 0
    /\ \A i \in 1..(Len(norm.out) - 1) : norm.out[i + 1].depth <= norm.out[i].depth + 1

\* A root with a child and a grandchild has been flattened.
C23_Witness ==
  /\ Flattened
  /\ Paths(norm.tree) = {<<>>, <<1>>, <<1, 1>>}
  /\ [i \in 1..3 |-> norm.out[i].depth] = <<0, 1, 2>>
  /\ [i \in 1..3 |-> norm.out[i].type] = <<"AXGroup", "AXHeading", "AXGroup">>

\* The frames the helper reported for the nodes of a tree.
FramesOf(tree) ==
  {At(tree, path).frame : path \in {q \in Paths(tree) : "frame" \in DOMAIN At(tree, q)}}

\* tree.frame ?? originFrame
RootFrameOf(tree, originFrame) == IF "frame" \in DOMAIN tree THEN tree.frame ELSE originFrame

\* A frame moved by minus the place of another.
Minus(frame, by) == Frame(frame.x - by.x, frame.y - by.y, frame.width, frame.height)

\* Both minima of some frames are within the 5 px tolerance.
NearZero(frames) ==
  /\ frames # {}
  /\ Least({f.x : f \in frames}) <= 5
  /\ Least({f.y : f \in frames}) <= 5

\* The rect made for the node at a path.
MadeAt(tree, nodes, path) == nodes[Rank(tree, path)]

\* Each framed node of the tree has the rect `rect` gives for its frame, of the
\* frame's width and height, and a node without a frame has no rect.
RectsAre(tree, nodes, rect(_)) ==
  \A path \in Paths(tree) :
    LET node == At(tree, path)
        made == MadeAt(tree, nodes, path)
    IN IF "frame" \in DOMAIN node
       THEN /\ "rect" \in DOMAIN made
            /\ made.rect = rect(node.frame)
            /\ made.rect.width = node.frame.width
            /\ made.rect.height = node.frame.height
       ELSE "rect" \notin DOMAIN made

\* C24, as stated: with a root or origin frame, the rects are the frames minus
\* the root frame's place when both minima of the frames taken after the
\* subtraction are <= 5, and the frames with the place added back (the
\* reported, absolute frames) when either of those minima is > 5; width and
\* height are the frame's.
C24_AddsBackWhenFarAfterSubtraction ==
  Flattened /\ RootFrameOf(norm.tree, norm.originFrame) # Undefined =>
    LET root == RootFrameOf(norm.tree, norm.originFrame)
        moved == {Minus(f, root) : f \in FramesOf(norm.tree)}
        Kept(frame) == frame
        Moved(frame) == Minus(frame, root)
    IN IF NearZero(moved) THEN RectsAre(norm.tree, norm.out, Moved)
       ELSE RectsAre(norm.tree, norm.out, Kept)

\* C24, amended: with a root or origin frame, the minima are taken over the
\* frames as reported, before the subtraction: when both are <= 5 the root
\* frame's place is added back and the rects are the reported frames, and when
\* either is > 5 the rects are the frames minus the root frame's place; width
\* and height are the frame's.
C24_AddsBackWhenReportedNearZero ==
  Flattened /\ RootFrameOf(norm.tree, norm.originFrame) # Undefined =>
    LET root == RootFrameOf(norm.tree, norm.originFrame)
        Kept(frame) == frame
        Moved(frame) == Minus(frame, root)
    IN IF NearZero(FramesOf(norm.tree)) THEN RectsAre(norm.tree, norm.out, Kept)
       ELSE RectsAre(norm.tree, norm.out, Moved)

\* A root without a frame and two children near the origin were flattened with
\* the window's frame as origin: the children's rects are the reported frames.
C24_Witness ==
  /\ Flattened
  /\ "frame" \notin DOMAIN norm.tree
  /\ norm.originFrame = WindowFrame
  /\ Len(norm.out) = 3
  /\ "rect" \in DOMAIN norm.out[2] /\ norm.out[2].rect = Frame(6, 4, 40, 20)
  /\ "rect" \in DOMAIN norm.out[3] /\ norm.out[3].rect = Frame(3, 9, 40, 20)

Renormalized == norm # Undefined /\ norm.pc = "again"

\* The add-back branch is taken in the second pass.
AddsBackAgain ==
  /\ RootFrameOf(norm.relative, norm.originFrame) # Undefined
  /\ NearZero(FramesOf(norm.relative))

\* The second pass made the rects of the first.
RectsUnchanged ==
  \A i \in 1..Len(norm.out) :
    IF "rect" \in DOMAIN norm.out[i]
    THEN "rect" \in DOMAIN norm.again[i] /\ norm.again[i].rect = norm.out[i].rect
    ELSE "rect" \notin DOMAIN norm.again[i]

\* C25, as stated: normalizing the window-relative rects again with the same
\* origin frame returns every rect unchanged whenever the add-back branch is
\* not taken.
C25_UnchangedWhenNotAddedBack ==
  Renormalized /\ ~AddsBackAgain => RectsUnchanged

\* C25, amended: normalizing the window-relative rects again with the same
\* origin frame returns every rect unchanged when the add-back branch is taken,
\* as it always is when the root has a frame, and when there is neither a root
\* nor an origin frame; when there is one and the branch is not taken, every
\* rect is moved by minus that frame's place.
C25_UnchangedWhenAddedBack ==
  Renormalized =>
    LET root == RootFrameOf(norm.relative, norm.originFrame)
        Moved(frame) == Minus(frame, root)
    IN /\ AddsBackAgain \/ root = Undefined => RectsUnchanged
       /\ "frame" \in DOMAIN norm.tree => AddsBackAgain
       /\ ~AddsBackAgain /\ root # Undefined =>
            RectsAre(norm.relative, norm.again, Moved)

\* Rects near the origin, of a root without a frame, were normalized again
\* with the window's frame as origin and came out as they were.
C25_Witness ==
  /\ Renormalized
  /\ AddsBackAgain
  /\ "frame" \notin DOMAIN norm.tree
  /\ norm.originFrame = WindowFrame
  /\ Len(norm.again) = 3
  /\ \A i \in {2, 3} : "rect" \in DOMAIN norm.out[i] /\ "rect" \in DOMAIN norm.again[i]
  /\ norm.again[2].rect = Frame(6, 4, 40, 20) /\ norm.out[2].rect = Frame(6, 4, 40, 20)
  /\ norm.again[3].rect = norm.out[3].rect

\* ------------------------------------------------------ start(): shutdown

\* The most signals and fatal errors one run of the daemon gets.
MaxSignals == 1

\* Array.from(sessions.values()): the sessions in the map's insertion order,
\* which the model does not keep, so in any order.
SessionOrders ==
  {order \in [1..Cardinality(DOMAIN sessions) -> DOMAIN sessions] :
     \A i, j \in DOMAIN order : order[i] = order[j] => i = j}

\* The iOS simulators the sessions of a map are bound to.
IosSimulatorsOf(map) ==
  {map[name].device.id : name \in {k \in DOMAIN map : isIosSimulator(map[k].device)}}

\* server.close(callback)
serverClose(p) == [p EXCEPT !.closing = TRUE]

\* shutdown's `for (const session of sessionsToStop)` from the sessions todo
\* on: it waits at the stop of the first iOS simulator's runner, or is through
\* and closes the server.
RECURSIVE shutdownLoop(_, _)
shutdownLoop(p, todo) ==
  IF todo = <<>> THEN serverClose(p)
  ELSE IF isIosSimulator(Head(todo))
       THEN [p EXCEPT !.runs = Append(@, todo),
                      !.stops = @ \cup {Head(todo).id}]
       ELSE shutdownLoop(p, Tail(todo))

\* void shutdown()
shutdown(p, order) ==
  shutdownLoop([p EXCEPT !.signals = @ + 1,
                         !.toStop = IF p.signals = 0 THEN IosSimulatorsOf(sessions) ELSE @],
               [i \in DOMAIN order |-> sessions[order[i]].device])

\* The activations of shutdown without the i-th.
withoutRun(p, i) ==
  [p EXCEPT !.runs = SubSeq(@, 1, i - 1) \o SubSeq(@, i + 1, Len(@))]

ProcUnchanged ==
  UNCHANGED <<sessions, arrays, now, buffer, tasks, reqlog, epoch, universe>>

\* process.on('SIGINT' | 'SIGTERM' | 'SIGHUP', () => { void shutdown(); })
Signal(order) ==
  /\ proc.alive /\ proc.signals < MaxSignals
  /\ order \in SessionOrders
  /\ proc' = shutdown(proc, order)
  /\ ProcUnchanged /\ UNCHANGED failures /\ UNCHANGED utils

\* process.on('uncaughtException', ...), for an error outside any request:
\* "Daemon error" is written to stderr, then void shutdown().
UncaughtException(order) ==
  /\ proc.alive /\ proc.signals < MaxSignals
  /\ order \in SessionOrders
  /\ proc' = shutdown(proc, order)
  /\ ProcUnchanged /\ UNCHANGED failures /\ UNCHANGED utils

\* `await stopIosRunnerSession(session.device.id)` resolves in the i-th
\* activation: its loop goes on.
ShutdownStopReturns(i) ==
  /\ proc.alive /\ i \in DOMAIN proc.runs
  /\ proc' = shutdownLoop(withoutRun(proc, i), Tail(proc.runs[i]))
  /\ ProcUnchanged /\ UNCHANGED failures /\ UNCHANGED utils

\* It rejects: nothing in shutdown catches, the activation ends there, without
\* server.close; its promise was dropped by `void`, so the rejection is
\* unhandled, which Node raises as an uncaught exception, and that handler
\* calls shutdown anew.
ShutdownStopThrows(i, order) ==
  /\ proc.alive /\ i \in DOMAIN proc.runs
  /\ failures < MaxFailures
  /\ failures' = failures + 1
  /\ order \in SessionOrders
  /\ proc' = [shutdown(withoutRun(proc, i), order) EXCEPT !.signals = proc.signals]
  /\ ProcUnchanged /\ UNCHANGED utils

\* The callback of server.close, called once the server has stopped listening
\* and every connection has ended: removeInfo(); process.exit(0).
ServerClosed ==
  /\ proc.alive /\ proc.closing /\ proc.open = {}
  /\ proc' = [proc EXCEPT !.info = FALSE, !.alive = FALSE]
  /\ ProcUnchanged /\ UNCHANGED failures /\ UNCHANGED utils

\* A client that waits for no response ends its connection.
Disconnect(c) ==
  /\ proc.alive /\ c \in proc.open
  /\ buffer[c] = <<>> /\ \A t \in tasks : t.id[1] # c
  /\ proc' = [proc EXCEPT !.open = @ \ {c}]
  /\ ProcUnchanged /\ UNCHANGED failures /\ UNCHANGED utils

\* One or two sessions, on an iOS simulator and on an Android device.
ShutdownUniverses ==
  { {OpenLine, CloseLine},
    {OpenLine, GoodOn(Android, "s2", "open", <<>>)} }

InitShutdown == Started /\ UtilsIdle /\ universe \in ShutdownUniverses

ShutdownStep ==
  \/ \E order \in SessionOrders : Signal(order)
  \/ \E order \in SessionOrders : UncaughtException(order)
  \/ \E i \in DOMAIN proc.runs : ShutdownStopReturns(i)
  \/ \E i \in DOMAIN proc.runs, order \in SessionOrders : ShutdownStopThrows(i, order)
  \/ ServerClosed

NextShutdown ==
  \/ Next
  \/ ShutdownStep
  \/ \E c \in Conns : Disconnect(c)

SpecShutdown == InitShutdown /\ [][NextShutdown]_vars

\* The runner's stop settles, and the event loop calls the callback of
\* server.close once the server has drained; the clients are not bound to end
\* their connections.
SpecShutdownFair ==
  /\ SpecShutdown
  /\ WF_vars(\/ \E i \in DOMAIN proc.runs : ShutdownStopReturns(i)
             \/ \E i \in DOMAIN proc.runs, order \in SessionOrders :
                  ShutdownStopThrows(i, order))
  /\ WF_vars(ServerClosed)

ShutdownAsked == proc.signals > 0
Exited == ~proc.alive /\ ~proc.info


\* C26: after a signal or an uncaught fatal error, the process does not exit
\* before a runner stop was asked for each iOS-simulator session of the map,
\* and it does in the end remove daemon.json and exit, also when a runner stop
\* fails and when clients keep their connections open.
C26_StopsRunnersThenExits ==
  /\ [](~proc.alive => proc.toStop \subseteq proc.stops)
  /\ (ShutdownAsked ~> Exited)

\* ------------------------------------------------- one response per line

\* Lines that are not requests among requests.
FramingUniverses ==
  { {OpenLine, CloseLine},
    {GarbageLine, EmptyLine, OpenLine},
    {GarbageLine, SnapshotLine, ClickLine} }

InitFraming == Started /\ UtilsIdle /\ universe \in FramingUniverses
SpecFraming == InitFraming /\ [][Next]_vars

\* The lines of connection c still in its buffer, by arrival number.
Buffered(c) == {buffer[c][i].n : i \in DOMAIN buffer[c]}
\* The requests of connection c whose handler waits in an await.
Waiting(c) == {t.id[2] : t \in {u \in tasks : u.id[1] = c}}

\* {ok: true, data} or {ok: false, error: {code, message}} with a code.
OneOfTwoShapes(resp) ==
  \/ DOMAIN resp = {"ok", "data"} /\ resp.ok = TRUE
  \/ /\ DOMAIN resp = {"ok", "error"} /\ resp.ok = FALSE
     /\ DOMAIN resp.error = {"code", "message"}
     /\ resp.error.code # ""

\* C27: every non-empty line a connection has received is in the buffer, or
\* its handler waits for a collaborator, or it has got exactly one response
\* line, of one of the two shapes and with a code when it is an error; an empty
\* line gets none; a line that is not JSON and a request whose handling threw
\* got an error response; and no line stays in the buffer unless a handler of
\* the connection is waiting and will take it, so that the connection goes on
\* serving after an error.
C27_OneResponsePerLine ==
  \A c \in Conns :
    /\ buffer[c] # <<>> => Waiting(c) # {}
    /\ \A n \in DOMAIN reqlog[c] :
         LET log == reqlog[c][n]
         IN /\ \A i \in DOMAIN log.resps : OneOfTwoShapes(log.resps[i])
            /\ IF log.line.kind = "empty" \/ n \in Buffered(c) \/ n \in Waiting(c)
               THEN log.resps = <<>>
               ELSE Len(log.resps) = 1
            /\ Buffered(c) \cap Waiting(c) = {}
            /\ log.line.kind = "garbage" /\ n \notin Buffered(c) =>
                 ~log.resps[1].ok
            /\ log.outcome = "throw" => ~log.resps[1].ok

\* On one connection a line that is not JSON and a request whose collaborator
\* threw were answered with errors, and a later request with ok.
C27_Witness ==
  /\ Len(reqlog["c1"]) = 3
  /\ reqlog["c1"][1].line.kind = "garbage"
  /\ reqlog["c1"][1].resps # <<>> /\ ~reqlog["c1"][1].resps[1].ok
  /\ reqlog["c1"][2].outcome = "throw"
  /\ reqlog["c1"][2].calls # <<>>
  /\ ~reqlog["c1"][2].resps[1].ok
  /\ reqlog["c1"][3].resps # <<>> /\ reqlog["c1"][3].resps[1].ok

\* --------------------------------------------- what changes the session map

\* The machine as start() leaves it.
StartedMachine ==
  [sessions |-> EmptyMap, arrays |-> <<>>, now |-> 1,
   buffer |-> [c \in Conns |-> <<>>], tasks |-> {},
   reqlog |-> [c \in Conns |-> <<>>], epoch |-> [s \in SessionNames |-> 0]]

\* The machine once the promise its one waiting handler awaits has settled.
settled(m, out) ==
  LET t == CHOOSE u \in m.tasks : TRUE
  IN afterRequest(
       resumeRequest([m EXCEPT !.tasks = @ \ {t}], t.id,
                     m.reqlog[t.id[1]][t.id[2]].line.req, t.pc, t.loc, out),
       t.id)

\* The machine after a snapshot request, the first of connection c1, has
\* resolved the iOS simulator, captured `data` and stored the session.
Snapshotted(data) ==
  settled(settled(takeLines(receive(StartedMachine, "c1", <<SnapshotLine>>), "c1"),
                  Resolved(DeviceFor(SnapshotLine.req.flags))),
          Resolved(data))

\* What the clients send after that snapshot: every command, with and
\* without the daemon's token, on the one session.
MapUniverses ==
  { {OpenLine, CloseLine},
    {SnapshotLine, Bad("", "open", <<>>)},
    {ClickLine, FillRefLine},
    {GetTextLine, Good("", "session_list", <<>>)},
    {BackLine, Bad("", "snapshot", <<>>)} }

\* The daemon with a session that a snapshot has stored.
AfterSnapshot ==
  /\ \E data \in SnapshotData \ {Undefined} :
       LET m == Snapshotted(data)
       IN /\ sessions = m.sessions /\ arrays = m.arrays /\ now = m.now
          /\ buffer = m.buffer /\ tasks = m.tasks /\ reqlog = m.reqlog
          /\ epoch = m.epoch
  /\ failures = 0
  /\ proc = Listening

InitMap == AfterSnapshot /\ UtilsIdle /\ universe \in MapUniverses

\* The requests, and shutdown up to its server.close, while the clients stay
\* connected.
NextMap ==
  \/ Next
  \/ \E order \in SessionOrders : Signal(order)
  \/ \E order \in SessionOrders : UncaughtException(order)
  \/ \E i \in DOMAIN proc.runs : ShutdownStopReturns(i)
  \/ \E i \in DOMAIN proc.runs, order \in SessionOrders : ShutdownStopThrows(i, order)

SpecMap == InitMap /\ [][NextMap]_vars

\* The commands that write the session map.
MapWriters == {"open", "snapshot", "close"}

\* What a line that has written the map is: an authorized open or snapshot
\* that set the entry of its session, or close that deleted it, once, and
\* returned ok.
WroteAsAllowed(log) ==
  /\ log.line.kind = "request"
  /\ log.line.req.token = token
  /\ log.line.req.command \in MapWriters
  /\ Len(log.writes) = 1
  /\ log.writes[1].op = IF log.line.req.command = "close" THEN "delete" ELSE "set"
  /\ log.writes[1].name = SessionNameOf(log.line.req)
  /\ log.outcome = "return"
  /\ Len(log.resps) = 1 /\ log.resps[1].ok

\* C28: a step changes the session map only by the write of a request handled
\* in it, and the requests that write are the authorized opens and snapshots
\* that returned ok (one set of their own entry) and closes that returned ok
\* (one delete); so session_list, click, fill, get, forwarded commands,
\* unauthorized requests, an open or snapshot whose collaborator threw, and
\* every step of shutdown leave the whole map as it was.
C28_MapChangesOnlyByOpenSnapshotClose ==
  [][ /\ \A c \in Conns : \A n \in DOMAIN reqlog'[c] :
           reqlog'[c][n].writes # <<>> => WroteAsAllowed(reqlog'[c][n])
      /\ sessions' # sessions =>
           \E c \in Conns : \E n \in DOMAIN reqlog'[c] :
             /\ reqlog'[c][n].writes # <<>>
             /\ n \in DOMAIN reqlog[c] => reqlog[c][n].writes = <<>>
    ]_vars

\* Shutdown has been asked for, an open or snapshot has set the session's
\* entry, and an open or snapshot whose collaborator threw has written nothing.
C28_Witness ==
  /\ proc.signals > 0
  /\ "default" \in DOMAIN sessions
  /\ \E id \in RequestIds :
       /\ Req(id).command \in {"open", "snapshot"}
       /\ Log(id).outcome = "throw" /\ Log(id).calls # <<>> /\ Log(id).writes = <<>>
  /\ \E id \in RequestIds :
       Req(id).command \in {"open", "snapshot"} /\ Len(Log(id).writes) = 1

\* ------------------------------------------------------------ re-opening

OpenAndroidLine == GoodOn(Android, "", "open", <<>>)

\* What the clients send after that snapshot: the session is opened again, on
\* another device, and used or captured again.
ReopenUniverses ==
  { {OpenLine, CloseLine},
    {OpenAndroidLine, ClickLine},
    {OpenAndroidLine, FillRefLine},
    {OpenAndroidLine, GetTextLine},
    {OpenAndroidLine, SnapshotLine} }

InitReopen == AfterSnapshot /\ UtilsIdle /\ universe \in ReopenUniverses
SpecReopen == InitReopen /\ [][Next]_vars

\* In this step the line logged as `new` wrote the session map.
WritesNow(c, n) ==
  /\ reqlog'[c][n].writes # <<>>
  /\ n \in DOMAIN reqlog[c] => reqlog[c][n].writes = <<>>

\* C29: an open that succeeds on a session name that is in the map with a
\* snapshot sets an entry bound to the device it resolved and without a
\* snapshot; an entry without a snapshot gets one only by the write of a
\* snapshot request; and a click, fill by ref or get that finds the entry
\* without a snapshot is refused with the no-snapshot error and dispatches
\* nothing, so the refs issued before the re-open cannot be used.
C29_ReopenDropsSnapshot ==
  [][ /\ \A c \in Conns : \A n \in DOMAIN reqlog'[c] :
           LET new == reqlog'[c][n]
               name == SessionNameOf(new.line.req)
           IN /\ new.line.kind = "request" /\ new.line.req.command = "open"
              /\ WritesNow(c, n)
              /\ name \in DOMAIN sessions /\ sessions[name].snapshot # Undefined
              => /\ new.writes[1].op = "set" /\ new.writes[1].name = name
                 /\ ~new.writes[1].created
                 /\ new.writes[1].entry.device = DeviceFor(new.line.req.flags)
                 /\ new.writes[1].entry.snapshot = Undefined
                 /\ new.resps = <<Ok([session |-> name])>>
      /\ \A name \in DOMAIN sessions \cap DOMAIN sessions' :
           sessions[name].snapshot = Undefined /\ sessions'[name].snapshot # Undefined
           => \E c \in Conns : \E n \in DOMAIN reqlog'[c] :
                /\ WritesNow(c, n)
                /\ reqlog'[c][n].line.req.command = "snapshot"
                /\ SessionNameOf(reqlog'[c][n].line.req) = name
      /\ \A c \in Conns : \A n \in DOMAIN reqlog'[c] :
           LET new == reqlog'[c][n]
           IN /\ new.line.kind = "request" /\ new.started
              /\ new.line.req.token = token /\ NeedsSnapshot(new.line.req)
              /\ new.seen # Undefined /\ new.seen.snapshot = Undefined
              => /\ new.resps = <<Fail("INVALID_ARGS", NoSnapshotMessage)>>
                 /\ new.calls = <<>>
    ]_vars

\* A session that a snapshot had stored on the iOS simulator was opened again
\* on the Android emulator, and the click, fill or get after it found the
\* entry on that device without a snapshot and was refused.
C29_Witness ==
  \E snap \in RequestIds, open \in RequestIds, use \in RequestIds :
    /\ Req(snap).command = "snapshot" /\ Log(snap).writes # <<>>
    /\ Log(snap).writes[1].entry.device = IosSim
    /\ Req(open).command = "open" /\ Log(open).writes # <<>>
    /\ ~Log(open).writes[1].created
    /\ Log(open).writes[1].entry.device = AndroidEmu
    /\ NeedsSnapshot(Req(use)) /\ HasStarted(use)
    /\ Log(use).seen # Undefined
    /\ Log(use).seen.device = AndroidEmu /\ Log(use).seen.snapshot = Undefined
    /\ Log(use).resps = <<Fail("INVALID_ARGS", NoSnapshotMessage)>>

\* C30: a snapshot that succeeds on a session that is in the map changes only
\* the entry's snapshot: the device, app identifier and createdAt of the entry
\* it stores are those the map held right before the store, also when an open
\* on the same name has completed on another connection during the capture.
C30_SnapshotKeepsBinding ==
  [][ \A c \in Conns : \A n \in DOMAIN reqlog'[c] :
        LET new == reqlog'[c][n]
            name == SessionNameOf(new.line.req)
        IN /\ new.line.kind = "request" /\ new.line.req.command = "snapshot"
           /\ WritesNow(c, n)
           /\ name \in DOMAIN sessions
           => /\ new.writes[1].entry.device = sessions[name].device
              /\ new.writes[1].entry.appBundleId = sessions[name].appBundleId
              /\ new.writes[1].entry.createdAt = sessions[name].createdAt
    ]_vars

\* ------------------------------------------------ finders: locator 'role'

\* type 'AXButton', label 'Go'
NodeAxButton ==
  [type |-> <<"A", "X", "B", "u", "t", "t", "o", "n">>,
   label |-> <<"G", "o">>, rect |-> FindRect]
\* Types 'Button', 'XCUIElementTypeButton', 'Text', 'a.Other', 'AXButton'.
RoleNodes == {NodeCam, NodeCamBare, NodeValue, NodeMap, NodeAxButton}
RoleLists == UNION {[1..n -> RoleNodes] : n \in 0..MaxScan}

\* 'button', 'XCUIElementTypeButton', 'AXButton', ' Other '
RoleQueries ==
  {<<"b", "u", "t", "t", "o", "n">>,
   NodeCamBare.type,
   NodeAxButton.type,
   <<" ", "O", "t", "h", "e", "r", " ">>}

InitRole ==
  /\ Started /\ universe = {}
  /\ lookup = Undefined /\ retry = Undefined /\ ax = Undefined /\ norm = Undefined
  /\ finder \in {FindCall(nodes, "role", query, options) :
                   nodes \in RoleLists, query \in RoleQueries,
                   options \in FindMatchOptions}

SpecRole == InitRole /\ [][NextFinder]_vars

RoleSearched == finder # Undefined /\ finder.pc = "done" /\ finder.locator = "role"

\* The eligible nodes whose type, role-normalized, is the query role-normalized.
SameRole ==
  {i \in Eligible :
     /\ normalizeRole(finder.query) # <<>>
     /\ normalizeRole(Field(finder.nodes[i], "type")) = normalizeRole(finder.query)}

\* C31: with locator 'role' the query and the types are compared after the
\* same role normalization: when an eligible node's type has the query's
\* normal form, as 'XCUIElementTypeButton' and 'AXButton' have for 'button' and
\* as every type has for itself, the call returns the first such node, with
\* score 2.
C31_RoleQueryNormalizedAsType ==
  RoleSearched /\ SameRole # {} =>
    /\ finder.result # Null
    /\ finder.best.score = 2
    /\ finder.best.at = First(SameRole)

\* The eligible nodes whose type, role-normalized, is (exact) or contains
\* (partial) the query as findNodeByLocator normalizes it: trimmed, lowercased,
\* runs of whitespace collapsed, and nothing else.
RoleExact ==
  {i \in Eligible :
     /\ normalizeText(finder.query) # <<>>
     /\ normalizeRole(Field(finder.nodes[i], "type")) = normalizeText(finder.query)}
RolePartial ==
  {i \in Eligible :
     /\ normalizeText(finder.query) # <<>>
     /\ includes(normalizeRole(Field(finder.nodes[i], "type")),
                 normalizeText(finder.query))}

\* C31: with locator 'role' the type is role-normalized and the query is only
\* trimmed, lowercased and collapsed: the call returns the first eligible node
\* whose normalized type is that query (so 'button' returns a node of type
\* 'XCUIElementTypeButton' or 'AXButton', with score 2), else the first whose
\* normalized type contains it, else null; a query equal to a node's own type
\* returns that node with score 2 only when role normalization leaves of the
\* type what trimming, lowercasing and collapsing leave ('Button', not
\* 'XCUIElementTypeButton', 'AXButton' or 'a.Other').
C31_TypeNormalizedQueryTrimmedLowercased ==
  RoleSearched =>
    /\ RoleExact # {} =>
         /\ finder.result = finder.nodes[First(RoleExact)]
         /\ finder.best.score = 2 /\ finder.best.at = First(RoleExact)
    /\ RoleExact = {} /\ RolePartial # {} =>
         /\ finder.result = finder.nodes[First(RolePartial)]
         /\ finder.best.score = 1 /\ finder.best.at = First(RolePartial)
    /\ RolePartial = {} => finder.result = Null
    /\ \A i \in Eligible :
         /\ Field(finder.nodes[i], "type") = finder.query
         /\ normalizeRole(finder.query) # normalizeText(finder.query)
         => ~(finder.result # Null /\ finder.best.at = i /\ finder.best.score = 2)

\* C31's case: 'button' returns the node of type 'XCUIElementTypeButton', ahead
\* of the later 'AXButton' one, after a node of type 'Text'.
C31_Witness ==
  /\ RoleSearched
  /\ finder.query = <<"b", "u", "t", "t", "o", "n">>
  /\ finder.nodes = <<NodeValue, NodeCamBare, NodeAxButton>>
  /\ finder.result = NodeCamBare
  /\ finder.best.score = 2

\* ------------------------------------------- utils/retry.ts: the longest sleep

\* C32 as stated: no sleep of withRetry is longer than maxDelayMs.
C32_SleepAtMostMaxDelay ==
  retry # Undefined =>
    \A k \in 1..Len(retry.sleeps) : retry.sleeps[k].delay <= retry.maxDelayMs * Scale

\* C32: the jitter is applied after the cap, so a sleep of withRetry is at most
\* maxDelayMs * (1 + jitter), for every attempt and every draw and every
\* jitter >= 0; it is longer than maxDelayMs only with jitter > 0, and then by
\* less than the jitter's share of the capped exponential delay.
\* (Delays are in 1/Scale ms, jitter in 1/JitterUnit.)
C32_SleepAtMostMaxDelayPlusJitter ==
  retry # Undefined =>
    \A k \in 1..Len(retry.sleeps) :
      LET d == retry.sleeps[k].delay
      IN /\ d * JitterUnit <= retry.maxDelayMs * (JitterUnit + retry.jitter) * Scale
         /\ d > retry.maxDelayMs * Scale =>
              /\ retry.jitter > 0
              /\ (d - retry.maxDelayMs * Scale) * JitterUnit
                   < retry.sleeps[k].exp * retry.jitter * Scale

\* C32's case: base 2, cap 3, jitter 0.2: the second delay is capped at 3 and
\* the sleep is longer than 3 ms.
C32_Witness ==
  /\ retry # Undefined
  /\ Len(retry.sleeps) = 2
  /\ retry.baseDelayMs = 2 /\ retry.maxDelayMs = 3 /\ retry.jitter = 2
  /\ retry.sleeps[2].exp = 3
  /\ retry.sleeps[2].delay > 3 * Scale

====
